---- MODULE Spec2Model ----
(***************************************************************************)
(* The metadata extraction pipeline of github-metadata-api: the helpers of *)
(* src/metadataExtractor/helpers/metadata.js as operators, and the two     *)
(* route handlers POST /metadata and POST /metadata/user of                *)
(* src/metadataExtractor/routes.js as a state machine whose steps are the  *)
(* handler's awaits.  The handlers POST /metadata/content and POST         *)
(* /metadata/content/user of the same file, and the handler POST           *)
(* /metadata/pull of the updater with its helpers, are state machines of   *)
(* their own; the last one is run for several requests at once.            *)
(*                                                                         *)
(* Texts are sequences of tokens.  A token is one character ("{", "}",     *)
(* ",", " ", "k", and "bt" for the backtick) or a run of characters that   *)
(* the scanner treats as a unit: the entry keyword ("@article"), a         *)
(* precomposed letter ("e'" for e-acute, which NFKD splits into "e" and    *)
(* the combining mark "'"), or a brace-balanced BibTeX field ("title=A"    *)
(* stands for  title = {A} ).                                              *)
(***************************************************************************)
EXTENDS Integers, Sequences, FiniteSets, TLC

VARIABLES
    req,                \* the request body being served: route, prepare, readme_extract
    pc,                 \* the await the handler is suspended at
    metadata,           \* the handler's local variable metadata
    documentationFiles, \* the list fetchDocumentationFiles is building
    dirIndex,           \* the directory fetchDocumentationFiles is listing, 0 outside it
    thrown,             \* the error caught by the handler and the step that threw it
    res,                \* the responses the handler has sent, in order
    calls,              \* the external calls issued so far, in order
    steps,              \* the helpers that have worked on the record so far, in order
    listed,             \* what the directory queries have answered, in order
    failed,             \* the README and CITATION.cff and directory queries that threw
    fn,                 \* the helper a direct call exercises
    arg,                \* its arguments
    ret,                \* its result
    returned,           \* whether it has returned
    times,              \* how many times it has been called
    contentHandler,     \* the handler of POST /metadata/content[/user]: position and locals
    pullHandler,        \* the handlers of POST /metadata/pull in flight, by request
    github,             \* the repository on GitHub the pull requests write to
    resp,               \* the module-level variable resp of the updater routes
    userHandler,        \* the handlers of POST /metadata/user awaiting the CITATION.cff, by request
    global_new_pub,     \* the module-level variable new_pub of the extractor helpers
    global_new_field    \* the module-level variable new_field of the extractor helpers

vars == <<req, pc, metadata, documentationFiles, dirIndex, thrown, res, calls, steps,
          listed, failed,
          fn, arg, ret, returned, times,
          contentHandler, pullHandler, github, resp, userHandler, global_new_pub, global_new_field>>

handlerVars ==
    <<req, pc, metadata, documentationFiles, dirIndex, thrown, res, calls, steps, listed,
      failed>>
helperVars == <<fn, arg, ret, returned, times>>
serviceVars == <<contentHandler, pullHandler, github, resp, userHandler, global_new_pub, global_new_field>>

(***************************************************************************)
(* Bounds of the model.                                                    *)
(***************************************************************************)
MaxTextLen == 5     \* tokens of a text enumerated over Alphabet
MaxChunks == 3      \* chunks of a text assembled from Chunks
MaxPubs == 3        \* publications handed to removeDuplicatePublications
MaxCommits == 2     \* commits in the history of a repository object
MaxFiles == 3       \* entries of a directory listing handed to processFiles
MaxCalls == 2       \* calls of PrepareListsIds on one record
MaxCffAuthors == 2  \* authors listed in a CITATION.cff
MaxBranches == 3    \* branch names handed to generateBranchName
MaxFileLen == 2     \* bytes of a file served by the contents API
MaxRequests == 2    \* requests of one route in flight at the same time

(***************************************************************************)
(* Generic helpers.                                                        *)
(***************************************************************************)
SeqsUpTo(S, n) == UNION {[1..k -> S] : k \in 0..n}

Min(S) == CHOOSE x \in S : \A y \in S : x <= y

RECURSIVE Flatten(_)
Flatten(ss) == IF ss = <<>> THEN <<>> ELSE Head(ss) \o Flatten(Tail(ss))

(***************************************************************************)
(* JavaScript values.  null is a value of its own; a string carries its    *)
(* text.                                                                   *)
(***************************************************************************)
JsNull == [type |-> "null"]

JsString(t) == [type |-> "string", text |-> t]

\* String(content): the text of a string, "null" for null.
String(content) == IF content.type = "null" THEN <<"null">> ELSE content.text

(***************************************************************************)
(* extractBibTeXEntries                                                    *)
(***************************************************************************)

\* content.replace(/bt/g, ''): every backtick is removed.
StripBackticks(content) == SelectSeq(content, LAMBDA c : c # "bt")

\* content.normalize('NFKD'): a precomposed letter becomes the base letter
\* followed by its combining mark; every other token is already decomposed.
NFKD(c) == IF c = "e'" THEN <<"e", "'">> ELSE <<c>>

normalizeContent(content) == Flatten([i \in 1..Len(content) |-> NFKD(content[i])])

\* toUpperCase on the strings of the model that hold a lower-case letter
\* (startRegex has the i flag: the keyword is compared without regard to case).
toUpperCase(c) ==
    CASE c = "@article" -> "@ARTICLE"
      [] c = "@inproceedings" -> "@INPROCEEDINGS"
      [] c = "@InProceedings" -> "@INPROCEEDINGS"
      [] c = "readme" -> "README"
      [] c = "Notes" -> "NOTES"
      [] c = "license" -> "LICENSE"
      [] c = "guide" -> "GUIDE"
      [] c = "setup" -> "SETUP"
      [] c = ".md" -> ".MD"
      [] c = ".txt" -> ".TXT"
      [] c = ".cff" -> ".CFF"
      [] c = ".py" -> ".PY"
      [] OTHER -> c

IsEntryKeyword(c) == toUpperCase(c) \in {"@ARTICLE", "@INPROCEEDINGS"}

\* \s* : the first position from i on that holds no white space.
SkipSpaces(content, i) ==
    Min({j \in i..(Len(content) + 1) : j = Len(content) + 1 \/ content[j] # " "})

\* The first comma from i on, 0 when there is none.
FirstComma(content, i) ==
    LET commas == {j \in i..Len(content) : content[j] = ","}
    IN  IF commas = {} THEN 0 ELSE Min(commas)

\* startRegex = /@(article|INPROCEEDINGS)\s*{[^,]+,/gi matched at position i:
\* the position of the comma that ends the match, 0 when there is no match at i.
startRegex(content, i) ==
    IF i > Len(content) \/ ~IsEntryKeyword(content[i]) THEN 0
    ELSE LET b == SkipSpaces(content, i + 1)
         IN  IF b > Len(content) \/ content[b] # "{" THEN 0
             ELSE LET m == FirstComma(content, b + 1)
                  IN  IF m = 0 \/ m = b + 1 THEN 0 ELSE m

\* braceScan without the braceCount++ branch: a nested opening brace is not
\* counted, so the entry ends at the first closing brace.
RECURSIVE braceScanNoNesting(_, _, _)
braceScanNoNesting(content, i, braceCount) ==
    IF i > Len(content) THEN 0
    ELSE LET n == IF content[i] = "}" THEN braceCount - 1 ELSE braceCount
         IN  IF n = 0 THEN i ELSE braceScanNoNesting(content, i + 1, n)

\* The for loop over the characters after the match: the position at which
\* braceCount reaches 0, 0 when the content ends first.
RECURSIVE braceScan(_, _, _)
braceScan(content, i, braceCount) ==
    IF i > Len(content) THEN 0
    ELSE LET char == content[i]
             n == IF char = "{" THEN braceCount + 1
                  ELSE IF char = "}" THEN braceCount - 1
                  ELSE braceCount
         IN  IF n = 0 THEN i ELSE braceScan(content, i + 1, n)

\* The while loop: startRegex.exec from lastIndex, the scan of the entry, and
\* the next exec from the end of the match (not from the end of the entry).
RECURSIVE execLoop(_, _)
execLoop(content, lastIndex) ==
    LET starts == {i \in lastIndex..Len(content) : startRegex(content, i) # 0}
    IN  IF starts = {} THEN <<>>
        ELSE LET startIndex == Min(starts)
                 matchEnd == startRegex(content, startIndex)
                 close == braceScan(content, matchEnd + 1, 1)
                 rest == execLoop(content, matchEnd + 1)
             IN  IF close = 0 THEN rest
                 ELSE <<SubSeq(content, startIndex, close)>> \o rest

\* The number of "{" minus the number of "}" in s.
BraceDepthOf(s) ==
    Cardinality({k \in 1..Len(s) : s[k] = "{"}) - Cardinality({k \in 1..Len(s) : s[k] = "}"})

\* The content as the scanner sees it.
scannedContent(content) == normalizeContent(StripBackticks(String(content)))

extractBibTeXEntries(content) == execLoop(scannedContent(content), 1)

(***************************************************************************)
(* removeDuplicatePublications                                             *)
(***************************************************************************)

\* The template literal ${publication.title}-${publication.doi}.
identifier(publication) == publication.title \o "-" \o publication.doi

\* The forEach with the Set seen: position i of publications, the identifiers
\* seen so far, the unique publications so far.
RECURSIVE forEachPublication(_, _, _, _)
forEachPublication(publications, i, seen, uniquePublications) ==
    IF i > Len(publications) THEN uniquePublications
    ELSE LET publication == publications[i]
         IN  IF identifier(publication) \notin seen
             THEN forEachPublication(publications, i + 1,
                                     seen \cup {identifier(publication)},
                                     Append(uniquePublications, publication))
             ELSE forEachPublication(publications, i + 1, seen, uniquePublications)

\* The same loop with the seen test inverted in effect: a later publication with
\* a seen identifier replaces the one kept.
RECURSIVE keepLastPublication(_, _)
keepLastPublication(publications, i) ==
    IF i > Len(publications) THEN <<>>
    ELSE LET rest == keepLastPublication(publications, i + 1)
         IN  IF \E j \in (i + 1)..Len(publications) :
                    identifier(publications[j]) = identifier(publications[i])
             THEN rest
             ELSE <<publications[i]>> \o rest

removeDuplicatePublicationsKeepLast(publications) == keepLastPublication(publications, 1)

removeDuplicatePublications(publications) ==
    forEachPublication(publications, 1, {}, <<>>)

(***************************************************************************)
(* githubMetadata and its builders.  A nullable value of the GraphQL       *)
(* answer is JsNull, JsUndefined or a JsString.                            *)
(***************************************************************************)
JsUndefined == [type |-> "undefined"]

\* array.filter(val => val !== null)
removeNull(array) == SelectSeq(array, LAMBDA val : val # JsNull)

buildTopics(githubObject) ==
    [i \in 1..Len(githubObject.repositoryTopics.nodes) |->
        LET node == githubObject.repositoryTopics.nodes[i]
        IN  [uri |-> node.url, term |-> node.topic.name, vocabulary |-> ""]]

\* contributor.email || ''
emailOrEmpty(email) == IF email.type = "string" THEN email.text ELSE ""

\* The forEach over the contributors without the some(...) test: every
\* contributor is pushed.
RECURSIVE forEachContributorNoTest(_, _, _)
forEachContributorNoTest(contributors, i, authors) ==
    IF i > Len(contributors) THEN authors
    ELSE forEachContributorNoTest(contributors, i + 1,
             Append(authors, [name |-> contributors[i].name,
                              type |-> "person",
                              email |-> emailOrEmpty(contributors[i].email),
                              maintainer |-> FALSE]))

\* The same forEach with the some(...) test comparing names.
RECURSIVE forEachContributorByName(_, _, _)
forEachContributorByName(contributors, i, authors) ==
    IF i > Len(contributors) THEN authors
    ELSE LET author == [name |-> contributors[i].name,
                        type |-> "person",
                        email |-> emailOrEmpty(contributors[i].email),
                        maintainer |-> FALSE]
         IN  IF ~\E k \in 1..Len(authors) : authors[k].name = author.name
             THEN forEachContributorByName(contributors, i + 1, Append(authors, author))
             ELSE forEachContributorByName(contributors, i + 1, authors)

\* The forEach over the contributors: an author is pushed unless an author
\* with the same email is already in the list.
RECURSIVE forEachContributor(_, _, _)
forEachContributor(contributors, i, authors) ==
    IF i > Len(contributors) THEN authors
    ELSE LET author == [name |-> contributors[i].name,
                        type |-> "person",
                        email |-> emailOrEmpty(contributors[i].email),
                        maintainer |-> FALSE]
         IN  IF ~\E k \in 1..Len(authors) : authors[k].email = author.email
             THEN forEachContributor(contributors, i + 1, Append(authors, author))
             ELSE forEachContributor(contributors, i + 1, authors)

buildAuthors(githubObject) ==
    LET edges == githubObject.defaultBranchRef.target.history.edges
        contributors == [i \in 1..Len(edges) |-> edges[i].node.author]
    IN  forEachContributor(contributors, 1, <<>>)

\* if (githubObject.licenseInfo): null and undefined are falsy.
buildLicense(githubObject) ==
    IF githubObject.licenseInfo \notin {JsNull, JsUndefined}
    THEN <<[name |-> githubObject.licenseInfo.name, url |-> githubObject.licenseInfo.url]>>
    ELSE <<>>

githubMetadata(ghObject) ==
    [ name |-> ghObject.name,
      label |-> <<ghObject.name>>,
      description |-> removeNull(<<ghObject.description>>),
      links |-> removeNull(<<ghObject.mirrorUrl>>),
      webpage |-> removeNull(<<ghObject.homepageUrl>>),
      isDisabled |-> ghObject.isDisabled,
      isEmpty |-> ghObject.isEmpty,
      isLocked |-> ghObject.isLocked,
      isPrivate |-> ghObject.isPrivate,
      isTemplate |-> ghObject.isTemplate,
      version |-> [i \in 1..Len(ghObject.releases.nodes) |-> ghObject.releases.nodes[i].tagName],
      license |-> buildLicense(ghObject),
      repository |-> removeNull(<<ghObject.url>>),
      topics |-> buildTopics(ghObject),
      operations |-> <<>>,
      authors |-> buildAuthors(ghObject),
      bioschemas |-> FALSE,
      contribPolicy |-> <<>>,
      dependencies |-> <<>>,
      documentation |-> <<>>,
      download |-> <<>>,
      edam_operations |-> <<>>,
      edam_topics |-> <<>>,
      https |-> TRUE,
      input |-> <<>>,
      inst_instr |-> FALSE,
      operational |-> FALSE,
      os |-> <<>>,
      output |-> <<>>,
      publication |-> <<>>,
      semantics |-> [inputs |-> <<>>, outputs |-> <<>>, topics |-> <<>>, operations |-> <<>>],
      source |-> <<"github">>,
      src |-> <<>>,
      ssl |-> TRUE,
      tags |-> <<>>,
      test |-> <<>>,
      type |-> "" ]

(***************************************************************************)
(* parseCitationCFF.  The text of a CITATION.cff is kept as the YAML       *)
(* document it holds: kind "invalid" (not YAML), "empty" (the empty        *)
(* string), "null" (a document with no content), "scalar" (a plain string) *)
(* or "map", with the mapping in the field map.  A key the file does not   *)
(* have is outside the mapping's DOMAIN.                                   *)
(***************************************************************************)

\* yaml.load throws on text that is not YAML.
yamlLoadThrows(text) == text.kind = "invalid"

\* yaml.load(text) where it returns an object; reading a property of a plain
\* string gives undefined, as reading a key the mapping lacks.
yamlLoad(text) == IF text.kind = "map" THEN text.map ELSE <<>>

\* The truth value of citationData[key]: a key that is missing (undefined)
\* or holds the empty string is falsy.
truthy(citationData, key) == key \in DOMAIN citationData /\ citationData[key] # ""

\* ${author[key]} in the template literal: "undefined" for a missing key.
templateOf(author, key) == IF key \in DOMAIN author THEN author[key] ELSE "undefined"

\* value || ''
orEmpty(object, key) == IF key \in DOMAIN object THEN object[key] ELSE ""

\* The statement at which the try block of parseCitationCFF throws, "none"
\* when it runs to its return.
citationThrowsAt(citationContent) ==
    LET text == citationContent.text
    IN  IF yamlLoadThrows(text) THEN "yaml.load"
        ELSE IF text.kind \in {"empty", "null"} THEN "citationData.license"
        ELSE IF "authors" \notin DOMAIN yamlLoad(text) THEN "citationData.authors.length"
        ELSE "none"

\* metadata.license.push and metadata.label.push: the statements before the
\* read of citationData.authors.length.
pushLicenseAndLabel(citationData, record) ==
    LET withLicense ==
            IF truthy(citationData, "license")
            THEN [record EXCEPT !.license =
                      Append(@, [name |-> citationData.license, url |-> ""])]
            ELSE record
    IN  IF truthy(citationData, "title")
        THEN [withLicense EXCEPT !.label = Append(@, citationData.title)]
        ELSE withLicense

\* citationData.authors.map(...)
mapAuthors(authors) ==
    [i \in 1..Len(authors) |->
        [name |-> templateOf(authors[i], "given-names") \o " "
                      \o templateOf(authors[i], "family-names"),
         email |-> "",
         maintainer |-> FALSE,
         type |-> "person"]]

\* The same statement written as a merge: the citation authors are appended
\* to the authors already in the record.
assignAuthorsMerging(citationData, record) ==
    IF Len(citationData.authors) > 0
    THEN [record EXCEPT !.authors = @ \o mapAuthors(citationData.authors)]
    ELSE record

\* The authors statement: metadata.authors is replaced when the file lists
\* authors.
assignAuthors(citationData, record) ==
    IF Len(citationData.authors) > 0
    THEN [record EXCEPT !.authors = mapAuthors(citationData.authors)]
    ELSE record

\* The same statements with unshift in place of push: the version and the
\* publication are put in front of the elements already there.
pushVersionAndPublicationInFront(citationData, record) ==
    LET withVersion ==
            IF truthy(citationData, "version")
            THEN [record EXCEPT !.version = <<citationData.version>> \o @]
            ELSE record
    IN  IF "preferred-citation" \in DOMAIN citationData
        THEN LET pc0 == citationData["preferred-citation"]
                 new_pub == [title |-> orEmpty(pc0, "title"),
                             year |-> orEmpty(pc0, "year"),
                             doi |-> orEmpty(pc0, "doi"),
                             url |-> orEmpty(pc0, "url")]
             IN  [withVersion EXCEPT !.publication = <<new_pub>> \o @]
        ELSE withVersion

\* The statements after the authors: version and preferred-citation.
pushVersionAndPublication(citationData, record) ==
    LET withVersion ==
            IF truthy(citationData, "version")
            THEN [record EXCEPT !.version = Append(@, citationData.version)]
            ELSE record
    IN  IF "preferred-citation" \in DOMAIN citationData
        THEN LET pc0 == citationData["preferred-citation"]
                 new_pub == [title |-> orEmpty(pc0, "title"),
                             year |-> orEmpty(pc0, "year"),
                             doi |-> orEmpty(pc0, "doi"),
                             url |-> orEmpty(pc0, "url")]
             IN  [withVersion EXCEPT !.publication = Append(@, new_pub)]
        ELSE withVersion

\* parseCitationCFF(citationContent, metadata): the record as the try block
\* left it when it threw (the catch returns metadata, mutated in place by the
\* statements that ran), or as it is at the return.
parseCitationCFF(citationContent, record) ==
    LET at == citationThrowsAt(citationContent)
        citationData == yamlLoad(citationContent.text)
    IN  IF at \in {"yaml.load", "citationData.license"} THEN record
        ELSE IF at = "citationData.authors.length"
             THEN pushLicenseAndLabel(citationData, record)
        ELSE pushVersionAndPublication(citationData,
                 assignAuthors(citationData,
                     pushLicenseAndLabel(citationData, record)))

(***************************************************************************)
(* extractJournalPublication                                               *)
(***************************************************************************)

\* The field a token of an entry stands for: its upper-cased name and the
\* value bibtex-parser gives it (one pair of braces removed by the parser, so
\* a doubly braced value keeps a pair).
BibField(token) ==
    CASE token = "title=A" -> [name |-> "TITLE", value |-> "A"]
      [] token = "title=B" -> [name |-> "TITLE", value |-> "{B}"]
      [] token = "doi=1" -> [name |-> "DOI", value |-> "1"]
      [] token = "doi=2" -> [name |-> "DOI", value |-> "2"]
      [] token = "year=2020" -> [name |-> "YEAR", value |-> "2020"]
      [] OTHER -> [name |-> "", value |-> ""]

\* parse(entry) of bibtex-parser throws on an entry that is not of the form
\* keyword, "{", key, ",", fields, "}".
parseThrows(entry) ==
    \/ BraceDepthOf(entry) # 0
    \/ \E i \in 1..Len(entry) : entry[i] \in {"{", "}"} /\ i \notin {SkipSpaces(entry, 2), Len(entry)}

\* parsed[key][name]: the value of the first field of that name, "" (for the
\* undefined that || '' replaces) when the entry has none.
parsedField(entry, name) ==
    LET at == {i \in 1..Len(entry) : BibField(entry[i]).name = name}
    IN  IF at = {} THEN "" ELSE BibField(entry[Min(at)]).value

\* cleanBracketsInObject on one value: a value that starts with "{" and ends
\* with "}" loses both.
cleanBrackets(value) == IF value = "{B}" THEN "B" ELSE value

\* The for loop over the entries, with its try and catch.
RECURSIVE forEachEntry(_, _)
forEachEntry(bibtexEntries, i) ==
    IF i > Len(bibtexEntries) THEN <<>>
    ELSE LET entry == bibtexEntries[i]
             new_pub == [title |-> cleanBrackets(parsedField(entry, "TITLE")),
                         year |-> cleanBrackets(parsedField(entry, "YEAR")),
                         doi |-> cleanBrackets(parsedField(entry, "DOI")),
                         url |-> cleanBrackets(parsedField(entry, "URL"))]
         IN  (IF parseThrows(entry) THEN <<>> ELSE <<new_pub>>)
                 \o forEachEntry(bibtexEntries, i + 1)

extractJournalPublication(content) == forEachEntry(extractBibTeXEntries(content), 1)

(***************************************************************************)
(* processFiles.  A file name is kept as its stem and its extension (the   *)
(* text from the last dot on, "" when it has no dot).                      *)
(***************************************************************************)
FileName(stem, ext) == [stem |-> stem, ext |-> ext]

nameText(name) == name.stem \o name.ext

nameUpper(name) == toUpperCase(name.stem) \o toUpperCase(name.ext)

docDirs == <<"docs", "documentation", "example">>

\* Object.entries(docTypes), in insertion order.
docTypes ==
    << [type |-> "readme", filenames |-> <<FileName("README", ".md"), FileName("README", ".txt")>>],
       [type |-> "contributing",
        filenames |-> <<FileName("CONTRIBUTING", ".md"), FileName("CONTRIBUTING", ".txt")>>],
       [type |-> "license",
        filenames |-> <<FileName("LICENSE", ".md"), FileName("LICENSE", ".txt"), FileName("LICENSE", "")>>],
       [type |-> "code_of_conduct",
        filenames |-> <<FileName("CODE_OF_CONDUCT", ".md"), FileName("CODE_OF_CONDUCT", ".txt")>>],
       [type |-> "changelog",
        filenames |-> <<FileName("CHANGELOG", ".md"), FileName("CHANGELOG", ".txt")>>],
       [type |-> "installation",
        filenames |-> <<FileName("INSTALL", ".md"), FileName("INSTALL", ".txt"), FileName("INSTALL", "")>>],
       [type |-> "usage",
        filenames |-> <<FileName("USAGE", ".md"), FileName("USAGE", ".txt"), FileName("USAGE", "")>>],
       [type |-> "api",
        filenames |-> <<FileName("API", ".md"), FileName("API", ".txt"), FileName("API", "")>>],
       [type |-> "faq",
        filenames |-> <<FileName("FAQ", ".md"), FileName("FAQ", ".txt"), FileName("FAQ", "")>>],
       [type |-> "tutorial",
        filenames |-> <<FileName("TUTORIAL", ".md"), FileName("TUTORIAL", ".txt"), FileName("TUTORIAL", "")>>],
       [type |-> "requirements",
        filenames |-> <<FileName("REQUIREMENTS", ".md"), FileName("REQUIREMENTS", ".txt"),
                        FileName("REQUIREMENTS", "")>>],
       [type |-> "citation",
        filenames |-> <<FileName("CITATION", ".md"), FileName("CITATION", ".txt"),
                        FileName("CITATION", ""), FileName("CITATION", ".cff")>>] >>

\* file.name.endsWith('.md') || file.name.endsWith('.txt')
endsWithMdOrTxt(name) == name.ext \in {".md", ".txt"}

\* filenames.map(f => f.toUpperCase()).includes(file.name.toUpperCase())
includesUpper(filenames, name) ==
    \E k \in 1..Len(filenames) : nameUpper(filenames[k]) = nameUpper(name)

blobUrl(owner, repo, dir, name) ==
    "https://github.com/" \o owner \o "/" \o repo \o "/blob/main/"
        \o (IF dir # "" THEN dir \o "/" ELSE "") \o nameText(name)

\* The callback of map: the first catalog type that lists the name, else the
\* directory (root at top level).
classifyFile(file, owner, repo, dir) ==
    LET matches == {t \in 1..Len(docTypes) : includesUpper(docTypes[t].filenames, file.name)}
    IN  [type |-> IF matches # {} THEN docTypes[Min(matches)].type
                  ELSE IF dir # "" THEN dir ELSE "root",
         url |-> blobUrl(owner, repo, dir, file.name)]

\* The same chain with a filter that does not look at the type of the entry.
processFilesOfAnyType(files, owner, repo, dir) ==
    LET kept == SelectSeq(files, LAMBDA file : endsWithMdOrTxt(file.name))
    IN  [i \in 1..Len(kept) |-> classifyFile(kept[i], owner, repo, dir)]

\* files.filter(...).map(...)
processFiles(files, owner, repo, dir) ==
    LET kept == SelectSeq(files, LAMBDA file : file.type = "blob" /\ endsWithMdOrTxt(file.name))
    IN  [i \in 1..Len(kept) |-> classifyFile(kept[i], owner, repo, dir)]

(***************************************************************************)
(* PrepareListsIds                                                         *)
(***************************************************************************)
fields ==
    << "edam_topics", "edam_operations", "documentation", "description", "webpage",
       "license", "src", "links", "topics", "operations", "input", "output",
       "repository", "dependencies", "os", "authors", "publication" >>

\* The same loops building a new object that holds the designated fields only.
PrepareListsIdsDesignatedOnly(record) ==
    [f \in {fields[k] : k \in 1..Len(fields)} |->
        [n \in 1..Len(record[f]) |-> [term |-> record[f][n], id |-> n - 1]]]

\* The same loops with n starting at 1.
PrepareListsIdsFromOne(record) ==
    [f \in DOMAIN record |->
        IF \E k \in 1..Len(fields) : fields[k] = f
        THEN [n \in 1..Len(record[f]) |-> [term |-> record[f][n], id |-> n]]
        ELSE record[f]]

\* The same loops leaving an item that already is a {term, id} pair as it is.
PrepareListsIdsOnce(record) ==
    [f \in DOMAIN record |->
        IF \E k \in 1..Len(fields) : fields[k] = f
        THEN [n \in 1..Len(record[f]) |->
                 IF {"term", "id"} \subseteq DOMAIN record[f][n]
                 THEN record[f][n]
                 ELSE [term |-> record[f][n], id |-> n - 1]]
        ELSE record[f]]

\* The two loops: n restarts at 0 for every field, and metadata[field] is
\* assigned the list of {term, id} pairs.
PrepareListsIds(record) ==
    [f \in DOMAIN record |->
        IF \E k \in 1..Len(fields) : fields[k] = f
        THEN [n \in 1..Len(record[f]) |-> [term |-> record[f][n], id |-> n - 1]]
        ELSE record[f]]

(***************************************************************************)
(* generateBranchName.  A branch name is the sequence of its pieces: a     *)
(* word, and after it hyphens, decimal digits and other pieces, so that    *)
(* evaluator-07 is <<"evaluator", "-", "0", "7">>.  A Number is the pair   *)
(* <<hi, lo>> standing for hi * 10^8 + lo; parseInt and + give the double   *)
(* nearest to the exact result, which from 2^53 on is an even integer.     *)
(***************************************************************************)
JsArray(items) == [type |-> "array", items |-> items]

DigitChars == <<"0", "1", "2", "3", "4", "5", "6", "7", "8", "9">>

IsDigit(c) == \E k \in 1..10 : DigitChars[k] = c

DigitValue(c) == (CHOOSE k \in 1..10 : DigitChars[k] = c) - 1

NumberBase == 10^8

\* 2^53 = 9007199254740992, the first integer whose successor is no double.
TwoTo53 == <<90071992, 54740992>>

NumberOf(n) == <<0, n>>

Less(a, b) == a[1] < b[1] \/ (a[1] = b[1] /\ a[2] < b[2])

\* The exact sum of a Number and a small integer.
ExactPlus(v, k) ==
    LET t == v[2] + k IN <<v[1] + (t \div NumberBase), t % NumberBase>>

\* The exact value of a string of decimal digits.
RECURSIVE ExactValue(_, _)
ExactValue(digits, v) ==
    IF digits = <<>> THEN v
    ELSE LET t == v[2] * 10 + DigitValue(Head(digits))
         IN  ExactValue(Tail(digits), <<v[1] * 10 + (t \div NumberBase), t % NumberBase>>)

\* The double nearest to an integer below 2^54: the integer itself below
\* 2^53, and above it the even neighbour with the even significand.
RoundToDouble(v) ==
    IF Less(v, TwoTo53) \/ v[2] % 2 = 0 THEN v
    ELSE IF (v[2] - 1) % 4 = 0 THEN ExactPlus(v, -1) ELSE ExactPlus(v, 1)

\* Number to string, as the template literal does: the decimal digits.
RECURSIVE DigitsOfInt(_)
DigitsOfInt(n) ==
    IF n < 10 THEN <<DigitChars[n + 1]>>
    ELSE Append(DigitsOfInt(n \div 10), DigitChars[(n % 10) + 1])

RECURSIVE PaddedDigits(_, _)
PaddedDigits(n, width) ==
    IF width = 0 THEN <<>>
    ELSE Append(PaddedDigits(n \div 10, width - 1), DigitChars[(n % 10) + 1])

numberToString(v) ==
    IF v[1] = 0 THEN DigitsOfInt(v[2]) ELSE DigitsOfInt(v[1]) \o PaddedDigits(v[2], 8)

\* parseInt(match[1], 10)
parseInt(digits) == RoundToDouble(ExactValue(digits, NumberOf(0)))

\* re.exec(branch) for re = /^evaluator(?:-(\d+))?$/ : no match, or the match
\* with its group, undefined when the name is the bare word.
reExec(branch) ==
    IF branch = <<"evaluator">> THEN [matched |-> TRUE, group |-> JsUndefined]
    ELSE IF /\ Len(branch) >= 3
            /\ branch[1] = "evaluator"
            /\ branch[2] = "-"
            /\ \A k \in 3..Len(branch) : IsDigit(branch[k])
         THEN [matched |-> TRUE, group |-> JsString(SubSeq(branch, 3, Len(branch)))]
         ELSE [matched |-> FALSE]

\* match ? parseInt(match[1], 10) || 0 : null, then the filter of the nulls.
evaluator_branches(branches) ==
    LET matching == SelectSeq(branches, LAMBDA branch : reExec(branch).matched)
    IN  [k \in 1..Len(matching) |->
            IF reExec(matching[k]).group = JsUndefined THEN NumberOf(0)
            ELSE parseInt(reExec(matching[k]).group.text)]

\* Math.max(...numbers)
MathMax(numbers) ==
    numbers[CHOOSE i \in 1..Len(numbers) : \A j \in 1..Len(numbers) : ~Less(numbers[i], numbers[j])]

\* generateBranchName: the result is the value returned or the error thrown.
generateBranchName(branches) ==
    IF branches.type # "array"
    THEN [threw |-> TRUE,
          error |-> [message |-> "Invalid input: allBranchNames must be an array."]]
    ELSE LET numbers == evaluator_branches(branches.items)
             nextNumber == IF Len(numbers) > 0
                           THEN RoundToDouble(ExactPlus(MathMax(numbers), 1))
                           ELSE NumberOf(1)
         IN  [threw |-> FALSE, value |-> <<"evaluator", "-">> \o numberToString(nextNumber)]

(***************************************************************************)
(* The inputs of the direct calls.                                         *)
(***************************************************************************)
Alphabet == {"@article", "{", "}", ",", "k", "bt"}

Chunks ==
    { <<"@article", "{", "k", ",", "}">>,
      <<"@INPROCEEDINGS", " ", "{", "k", ",", "title=A", "}">>,
      <<"@InProceedings", "{", "k", ",", "{", "e'", "}", ",", "doi=1", "}">>,
      <<"@article", "{", "k", ",", "{">>,
      <<"@misc", "{", "k", ",", "}">>,
      <<"@article", " ", "k">>,
      <<"bt", "bt", "bt">>,
      <<"}">> }

Texts ==
    SeqsUpTo(Alphabet, MaxTextLen) \cup {Flatten(cs) : cs \in SeqsUpTo(Chunks, MaxChunks)}

Titles == {"", "A", "A-"}
Dois == {"", "1", "-1"}
Years == {"", "2020"}

Publications == [title : Titles, year : Years, doi : Dois, url : {""}]

PublicationLists == SeqsUpTo(Publications, MaxPubs)

\* The commit authors of a history: two names under one email, a null email
\* and an empty email.
Contributors ==
    { [name |-> "Ann", email |-> JsString("ann@x.org")],
      [name |-> "Ann B", email |-> JsString("ann@x.org")],
      [name |-> "Bob", email |-> JsNull],
      [name |-> "Cy", email |-> JsString("")] }

Histories == SeqsUpTo(Contributors, MaxCommits)

MITLicenseInfo == [type |-> "object", name |-> "MIT License", url |-> "http://choosealicense.com/licenses/mit/"]

\* The answer of queryRepositoryObject for a repository with the given
\* description, license and commit history.
RepositoryObject(description, licenseInfo, history) ==
    [ name |-> "repo",
      description |-> description,
      homepageUrl |-> JsString("http://x"),
      mirrorUrl |-> JsNull,
      url |-> JsString("https://github.com/owner/repo"),
      isDisabled |-> FALSE,
      isEmpty |-> FALSE,
      isLocked |-> FALSE,
      isPrivate |-> FALSE,
      isTemplate |-> FALSE,
      licenseInfo |-> licenseInfo,
      releases |-> [nodes |-> <<[tagName |-> "v1.0"]>>],
      repositoryTopics |->
          [nodes |-> <<[url |-> "https://github.com/topics/fair", topic |-> [name |-> "fair"]]>>],
      defaultBranchRef |->
          [target |-> [history |->
              [edges |-> [i \in 1..Len(history) |-> [node |-> [author |-> history[i]]]]]]] ]

RepositoryObjects ==
    { RepositoryObject(d, l, h) :
        d \in {JsNull, JsString("a tool")}, l \in {JsNull, MITLicenseInfo}, h \in Histories }

\* A mapping with the key absent, or present with one of the values.
Optional(key, values) == {<<>>} \cup {key :> v : v \in values}

CitationAuthors ==
    { ("given-names" :> "A") @@ ("family-names" :> "B"),
      "family-names" :> "C" }

PreferredCitations ==
    { <<>>, [title |-> "A", year |-> "2020", doi |-> "1", url |-> "http://doi.org/1"] }

CitationMaps ==
    { l @@ t @@ a @@ v @@ p :
        l \in Optional("license", {"", "MIT"}),
        t \in Optional("title", {"", "Tool"}),
        a \in Optional("authors", SeqsUpTo(CitationAuthors, MaxCffAuthors)),
        v \in Optional("version", {"", "2.0"}),
        p \in Optional("preferred-citation", PreferredCitations) }

CitationTexts ==
    {[kind |-> k] : k \in {"invalid", "empty", "null", "scalar"}}
        \cup {[kind |-> "map", map |-> m] : m \in CitationMaps}

\* The records handed to parseCitationCFF: a normalised repository, with or
\* without a publication from the README.
NormalisedRecords ==
    { [githubMetadata(gh) EXCEPT !.publication = ps] :
        gh \in { RepositoryObject(JsNull, JsNull, <<>>),
                 RepositoryObject(JsString("a tool"), MITLicenseInfo,
                     << [name |-> "Ann", email |-> JsString("ann@x.org")],
                        [name |-> "Bob", email |-> JsNull] >>) },
        ps \in { <<>>, <<[title |-> "A", year |-> "2020", doi |-> "1", url |-> ""]>> } }

\* The repository objects handed to githubMetadata: each of description,
\* homepageUrl, mirrorUrl and url is null, absent from the object (reading it
\* gives undefined) or a string, the empty string included; licenseInfo is
\* null, absent or a license.
NullableStrings(text) == {JsNull, JsUndefined, JsString(""), JsString(text)}

GithubObjects ==
    { [RepositoryObject(d, l, h) EXCEPT !.homepageUrl = w, !.mirrorUrl = m, !.url = u] :
        d \in NullableStrings("a tool"),
        w \in NullableStrings("http://x"),
        m \in {JsNull, JsUndefined, JsString("https://mirror/repo")},
        u \in {JsNull, JsUndefined, JsString("https://github.com/owner/repo")},
        l \in {JsNull, JsUndefined, MITLicenseInfo},
        h \in {<<>>, <<[name |-> "Ann", email |-> JsString("ann@x.org")]>>} }

\* The repository objects handed to buildAuthors: histories whose commit
\* authors share an email, or have a null, a missing or an empty email.
AuthorHistories ==
    SeqsUpTo(Contributors \cup {[name |-> "Dee", email |-> JsUndefined]}, MaxCommits)

AuthorObjects ==
    { RepositoryObject(d, l, h) :
        d \in {JsNull, JsString("a tool")}, l \in {JsNull, MITLicenseInfo},
        h \in AuthorHistories }

\* The entries of the listings handed to processFiles: catalog names in
\* several spellings, an extensionless catalog name, names outside the
\* catalog, and subdirectories, one of them with a name ending in .md.
ListingEntries ==
    { [name |-> FileName("README", ".md"), type |-> "blob"],
      [name |-> FileName("readme", ".md"), type |-> "blob"],
      [name |-> FileName("README", ".MD"), type |-> "blob"],
      [name |-> FileName("LICENSE", ""), type |-> "blob"],
      [name |-> FileName("license", ".txt"), type |-> "blob"],
      [name |-> FileName("NOTES", ".md"), type |-> "blob"],
      [name |-> FileName("setup", ".py"), type |-> "blob"],
      [name |-> FileName("docs", ""), type |-> "tree"],
      [name |-> FileName("guide", ".md"), type |-> "tree"] }

Listings == SeqsUpTo(ListingEntries, MaxFiles)

\* The records handed to PrepareListsIds: a normalised repository enriched
\* with documentation entries and publications.
EnrichedRecords ==
    { [githubMetadata(gh) EXCEPT !.documentation = ds, !.publication = ps] :
        gh \in RepositoryObjects,
        ds \in { <<>>,
                 << [type |-> "readme", url |-> "https://github.com/owner/repo/blob/main/README.md"],
                    [type |-> "docs", url |-> "https://github.com/owner/repo/blob/main/docs/guide.md"] >> },
        ps \in { <<>>,
                 << [title |-> "A", year |-> "2020", doi |-> "1", url |-> ""] >>,
                 << [title |-> "A", year |-> "2020", doi |-> "1", url |-> ""],
                    [title |-> "A", year |-> "2020", doi |-> "1", url |-> ""] >> } }

\* The branch names handed to generateBranchName: names outside the pattern,
\* the bare word, small numbers with and without leading zeros, and the
\* numbers around 2^53.
BranchNames ==
    { <<"main">>, <<"evaluator">>, <<"evaluator", "-", "x">>,
      <<"evaluator", "-", "0">>, <<"evaluator", "-", "1">>, <<"evaluator", "-", "0", "2">>,
      <<"evaluator", "-", "9">>,
      <<"evaluator", "-">> \o numberToString(ExactPlus(TwoTo53, -1)),
      <<"evaluator", "-">> \o numberToString(TwoTo53),
      <<"evaluator", "-">> \o numberToString(ExactPlus(TwoTo53, 2)) }

BranchArguments ==
    {JsArray(l) : l \in SeqsUpTo(BranchNames, MaxBranches)}
        \cup {JsNull, JsUndefined, JsString("main"), [type |-> "object"]}

(***************************************************************************)
(* The handler at rest, for the specifications that call a helper directly *)
(***************************************************************************)
HandlerIdle ==
    /\ req = [route |-> "none"]
    /\ pc = "idle"
    /\ metadata = <<>>
    /\ documentationFiles = <<>>
    /\ dirIndex = 0
    /\ thrown = [at |-> "none"]
    /\ res = <<>>
    /\ calls = <<>>
    /\ steps = <<>>
    /\ listed = <<>>
    /\ failed = {}

\* No request to the other routes has been received.
ContentIdle == contentHandler = [pc |-> "idle"]

ConcurrentIdle ==
    /\ pullHandler = <<>>
    /\ github = [branches |-> {}, files |-> {}, pulls |-> {}]
    /\ resp = JsUndefined
    /\ userHandler = <<>>
    /\ global_new_pub = JsUndefined
    /\ global_new_field = JsUndefined

ServicesIdle == ContentIdle /\ ConcurrentIdle

HelperIdle ==
    /\ fn = "none"
    /\ arg = <<>>
    /\ ret = <<>>
    /\ returned = FALSE
    /\ times = 0

(***************************************************************************)
(* What the external calls of a request can answer.                        *)
(***************************************************************************)
Requests ==
    { [route |-> "/metadata", owner |-> "owner", repo |-> "repo",
       prepare |-> p, readme_extract |-> r] : p \in BOOLEAN, r \in BOOLEAN }
    \cup
    { [route |-> "/metadata/user", owner |-> "owner", repo |-> "repo",
       prepare |-> p, readme_extract |-> FALSE] : p \in BOOLEAN }

\* An error of Octokit with an HTTP status, and one without (a TypeError, a
\* GraphQL error).
HttpError == [message |-> "Bad credentials", status |-> 401]
PlainError == [message |-> "Request failed"]
TypeError == [message |-> "Cannot read properties of null"]

\* A repository with no commit: it has no default branch.
EmptyRepositoryObject ==
    [RepositoryObject(JsNull, JsNull, <<>>) EXCEPT !.defaultBranchRef = JsNull, !.isEmpty = TRUE]

PipelineRepositories ==
    {RepositoryObject(JsNull, MITLicenseInfo, h) : h \in Histories} \cup {EmptyRepositoryObject}

Blob(stem, ext) == [name |-> FileName(stem, ext), type |-> "blob"]
Tree(stem) == [name |-> FileName(stem, ""), type |-> "tree"]

\* response.repository.object for a path: null for a directory that does not
\* exist, else the tree with its entries.
DirectoryObjects(path) ==
    IF path = ""
    THEN { [entries |-> <<Blob("README", ".md"), Tree("docs"), Blob("LICENSE", ""),
                          Blob("Notes", ".md")>>] }
    ELSE { JsNull, [entries |-> <<Blob("guide", ".md"), Blob("setup", ".py")>>] }

EntryA1 == <<"@article", "{", "k", ",", "title=A", ",", "doi=1", ",", "year=2020", "}">>
EntryB2 == <<"@INPROCEEDINGS", "{", "k", ",", "title=B", ",", "doi=2", "}">>

ReadmeTexts ==
    { <<"k">>,
      <<"bt", "bt", "bt">> \o EntryA1 \o <<"bt", "bt", "bt">>,
      EntryA1 \o <<"k">> \o EntryA1,
      EntryB2 \o <<"@article", "{", "k", ",", "title=A">> }

PipelineCitationMaps ==
    { ("license" :> "MIT") @@ a @@ p :
        a \in Optional("authors", SeqsUpTo(CitationAuthors, MaxCffAuthors)),
        p \in Optional("preferred-citation",
                       {[title |-> "A", year |-> "2020", doi |-> "1", url |-> ""]}) }

PipelineCitationTexts ==
    {[kind |-> k] : k \in {"invalid", "empty"}}
        \cup {[kind |-> "map", map |-> m] : m \in PipelineCitationMaps}

\* result.repository.object of getReadmeContent and getCitationContent: the
\* query throws, the file does not exist, or the blob with its text.
BlobOutcomes(texts) ==
    {[kind |-> "throws"], [kind |-> "absent"]} \cup {[kind |-> "blob", text |-> t] : t \in texts}

\* The catch block of getReadmeContent and getCitationContent was entered.
failureOf(call, outcome) == IF outcome.kind = "throws" THEN {call} ELSE {}

\* What getReadmeContent and getCitationContent return for an outcome: the
\* text, and null both when the file is absent and when the query threw.
contentOf(outcome) == IF outcome.kind = "blob" THEN JsString(outcome.text) ELSE JsNull

(***************************************************************************)
(* The route handlers POST /metadata and POST /metadata/user.  An action   *)
(* is the code from the return of one await to the next await (or to the   *)
(* end of the handler).                                                    *)
(***************************************************************************)
Init ==
    /\ req = [route |-> "none"]
    /\ pc = "idle"
    /\ metadata = <<>>
    /\ documentationFiles = <<>>
    /\ dirIndex = 0
    /\ thrown = [at |-> "none"]
    /\ res = <<>>
    /\ calls = <<>>
    /\ steps = <<>>
    /\ listed = <<>>
    /\ failed = {}
    /\ HelperIdle
    /\ ServicesIdle

\* error.status || 500 and error.message || 'An error occurred'
errorResponse(error) ==
    [status |-> IF "status" \in DOMAIN error THEN error.status ELSE 500,
     body |-> [data |-> JsNull,
               message |-> IF error.message # "" THEN error.message ELSE "An error occurred"]]

\* The catch block of POST /metadata/user: one response with data null.
catchUser(at, error) ==
    /\ thrown' = [at |-> at, error |-> error]
    /\ res' = Append(res, errorResponse(error))
    /\ pc' = "done"

\* The catch block of POST /metadata.  Its parameter is named error and hides
\* the logger of that name, so error('Error occurred:', error) calls the caught
\* error object: a TypeError leaves the catch block before res.status(...), and
\* the handler's promise rejects with nothing sent.
catchApp(at, error) ==
    /\ thrown' = [at |-> at, error |-> error]
    /\ res' = res
    /\ pc' = "rejected"

catch(at, error) ==
    IF req.route = "/metadata" THEN catchApp(at, error) ELSE catchUser(at, error)

paths == <<"">> \o docDirs

issue(call) == calls' = Append(calls, call)

Receive ==
    /\ pc = "idle"
    /\ \E r \in Requests :
         /\ req' = r
         /\ pc' = IF r.route = "/metadata" THEN "authApp" ELSE "authUser"
         /\ issue(IF r.route = "/metadata" THEN "authApp" ELSE "authUser")
    /\ UNCHANGED <<metadata, documentationFiles, dirIndex, thrown, res, steps>>
    /\ UNCHANGED helperVars
    /\ UNCHANGED serviceVars
    /\ UNCHANGED <<listed, failed>>

\* authApp returns the app, or null when reading the key or building the app
\* threw; app.getInstallationOctokit on null throws inside the handler's try.
AuthApp ==
    /\ pc = "authApp"
    /\ \E app \in {"app", "null"} :
         IF app = "null"
         THEN catch("app.getInstallationOctokit", TypeError) /\ UNCHANGED calls
         ELSE /\ pc' = "getInstallationOctokit"
              /\ issue("getInstallationOctokit")
              /\ UNCHANGED <<thrown, res>>
    /\ UNCHANGED <<req, metadata, documentationFiles, dirIndex, steps>>
    /\ UNCHANGED helperVars
    /\ UNCHANGED serviceVars
    /\ UNCHANGED <<listed, failed>>

GetInstallationOctokit ==
    /\ pc = "getInstallationOctokit"
    /\ \E ok \in BOOLEAN :
         IF ok
         THEN /\ pc' = "queryRepositoryObject"
              /\ issue("queryRepositoryObject")
              /\ UNCHANGED <<thrown, res>>
         ELSE catch("getInstallationOctokit", HttpError) /\ UNCHANGED calls
    /\ UNCHANGED <<req, metadata, documentationFiles, dirIndex, steps>>
    /\ UNCHANGED helperVars
    /\ UNCHANGED serviceVars
    /\ UNCHANGED <<listed, failed>>

\* authUser builds an Octokit from the token and cannot fail.
AuthUser ==
    /\ pc = "authUser"
    /\ pc' = "queryRepositoryObject"
    /\ issue("queryRepositoryObject")
    /\ UNCHANGED <<req, metadata, documentationFiles, dirIndex, thrown, res, steps>>
    /\ UNCHANGED helperVars
    /\ UNCHANGED serviceVars
    /\ UNCHANGED <<listed, failed>>

\* The same step with one retry of a query that failed.
GetRepositoryMetadataRetrying ==
    /\ pc = "queryRepositoryObject"
    /\ \/ /\ \E error \in {HttpError, PlainError} :
               IF Len(SelectSeq(calls, LAMBDA call : call = "queryRepositoryObject")) < 2
               THEN issue("queryRepositoryObject") /\ UNCHANGED <<pc, thrown, res>>
               ELSE catch("queryRepositoryObject", error) /\ UNCHANGED calls
          /\ UNCHANGED <<metadata, documentationFiles, dirIndex, steps>>
       \/ \E repository \in PipelineRepositories :
            IF repository.defaultBranchRef = JsNull
            THEN /\ catch("githubMetadata", TypeError)
                 /\ UNCHANGED <<metadata, documentationFiles, dirIndex, calls, steps>>
            ELSE /\ metadata' = githubMetadata(repository)
                 /\ steps' = Append(steps, "githubMetadata")
                 /\ documentationFiles' = <<>>
                 /\ dirIndex' = 1
                 /\ pc' = "fetchDirectoryContentsGraphQL"
                 /\ issue("fetchDirectoryContentsGraphQL:" \o paths[1])
                 /\ UNCHANGED <<thrown, res>>
    /\ UNCHANGED req
    /\ UNCHANGED helperVars
    /\ UNCHANGED serviceVars
    /\ UNCHANGED <<listed, failed>>

\* getRepositoryMetadata: the query, then githubMetadata, which reads
\* defaultBranchRef.target and throws on a repository without a default branch.
GetRepositoryMetadata ==
    /\ pc = "queryRepositoryObject"
    /\ \/ /\ \E error \in {HttpError, PlainError} : catch("queryRepositoryObject", error)
          /\ UNCHANGED <<metadata, documentationFiles, dirIndex, calls, steps>>
       \/ \E repository \in PipelineRepositories :
            IF repository.defaultBranchRef = JsNull
            THEN /\ catch("githubMetadata", TypeError)
                 /\ UNCHANGED <<metadata, documentationFiles, dirIndex, calls, steps>>
            ELSE /\ metadata' = githubMetadata(repository)
                 /\ steps' = Append(steps, "githubMetadata")
                 /\ documentationFiles' = <<>>
                 /\ dirIndex' = 1
                 /\ pc' = "fetchDirectoryContentsGraphQL"
                 /\ issue("fetchDirectoryContentsGraphQL:" \o paths[1])
                 /\ UNCHANGED <<thrown, res>>
    /\ UNCHANGED req
    /\ UNCHANGED helperVars
    /\ UNCHANGED serviceVars
    /\ UNCHANGED <<listed, failed>>

\* response.repository.object ? response.repository.object.entries : []
entriesOf(object) == IF object = JsNull THEN <<>> ELSE object.entries

\* The same concatenation with the new entries in front.
concatInFront(list, processed) == processed \o list

\* documentationFiles.concat(processFiles(...))
concat(list, processed) == list \o processed

\* The same step reading the entries of the answer without the test for a
\* missing object: a directory that does not exist throws a TypeError.
FetchDirectoryContentsUnguarded ==
    /\ pc = "fetchDirectoryContentsGraphQL"
    /\ \/ /\ catch("fetchDirectoryContentsGraphQL", PlainError)
          /\ failed' = failed \cup {"fetchDirectoryContentsGraphQL:" \o paths[dirIndex]}
          /\ UNCHANGED <<metadata, documentationFiles, dirIndex, calls, steps, listed>>
       \/ \E object \in DirectoryObjects(paths[dirIndex]) :
            IF object = JsNull
            THEN /\ catch("fetchDirectoryContentsGraphQL", TypeError)
                 /\ listed' = Append(listed, object)
                 /\ UNCHANGED <<metadata, documentationFiles, dirIndex, calls, steps, failed>>
            ELSE LET list == concat(documentationFiles,
                                    processFiles(object.entries, req.owner, req.repo,
                                                 paths[dirIndex]))
                 IN  /\ documentationFiles' = list
                     /\ listed' = Append(listed, object)
                     /\ steps' = Append(steps, "processFiles:" \o paths[dirIndex])
                     /\ IF dirIndex < Len(paths)
                        THEN /\ dirIndex' = dirIndex + 1
                             /\ pc' = "fetchDirectoryContentsGraphQL"
                             /\ issue("fetchDirectoryContentsGraphQL:" \o paths[dirIndex + 1])
                             /\ UNCHANGED metadata
                        ELSE /\ dirIndex' = 0
                             /\ metadata' = [metadata EXCEPT !.documentation = list]
                             /\ IF req.route = "/metadata/user" \/ req.readme_extract
                                THEN pc' = "getReadmeContent" /\ issue("getReadmeContent")
                                ELSE pc' = "getCitationContent" /\ issue("getCitationContent")
                     /\ UNCHANGED <<thrown, res, failed>>
    /\ UNCHANGED req
    /\ UNCHANGED helperVars
    /\ UNCHANGED serviceVars

\* fetchDocumentationFiles: one listing per await, root first and then docDirs
\* in order; a query that throws is caught by nothing before the handler's
\* catch.  After the last listing the handler stores the list in metadata and
\* goes on to the README (if asked for) or to the citation file.
FetchDirectoryContents ==
    /\ pc = "fetchDirectoryContentsGraphQL"
    /\ \/ /\ catch("fetchDirectoryContentsGraphQL", PlainError)
          /\ failed' = failed \cup {"fetchDirectoryContentsGraphQL:" \o paths[dirIndex]}
          /\ UNCHANGED <<metadata, documentationFiles, dirIndex, calls, steps, listed>>
       \/ \E object \in DirectoryObjects(paths[dirIndex]) :
            LET list == concat(documentationFiles,
                               processFiles(entriesOf(object), req.owner, req.repo,
                                            paths[dirIndex]))
            IN  /\ documentationFiles' = list
                /\ listed' = Append(listed, object)
                /\ steps' = Append(steps, "processFiles:" \o paths[dirIndex])
                /\ IF dirIndex < Len(paths)
                   THEN /\ dirIndex' = dirIndex + 1
                        /\ pc' = "fetchDirectoryContentsGraphQL"
                        /\ issue("fetchDirectoryContentsGraphQL:" \o paths[dirIndex + 1])
                        /\ UNCHANGED metadata
                   ELSE /\ dirIndex' = 0
                        /\ metadata' = [metadata EXCEPT !.documentation = list]
                        /\ IF req.route = "/metadata/user" \/ req.readme_extract
                           THEN pc' = "getReadmeContent" /\ issue("getReadmeContent")
                           ELSE pc' = "getCitationContent" /\ issue("getCitationContent")
                /\ UNCHANGED <<thrown, res, failed>>
    /\ UNCHANGED req
    /\ UNCHANGED helperVars
    /\ UNCHANGED serviceVars

GetReadmeContent ==
    /\ pc = "getReadmeContent"
    /\ \E outcome \in BlobOutcomes(ReadmeTexts) :
         /\ metadata' = [metadata EXCEPT
                            !.publication = extractJournalPublication(contentOf(outcome))]
         /\ failed' = failed \cup failureOf("getReadmeContent", outcome)
    /\ steps' = Append(steps, "extractJournalPublication")
    /\ pc' = "getCitationContent"
    /\ issue("getCitationContent")
    /\ UNCHANGED <<req, documentationFiles, dirIndex, thrown, res>>
    /\ UNCHANGED helperVars
    /\ UNCHANGED serviceVars
    /\ UNCHANGED listed

\* if (citationContent): null and the empty string are falsy.
isTruthyContent(content) == content.type = "string" /\ content.text.kind # "empty"

\* The if (citationContent) block of the handlers.
withCitation(citationContent, record) ==
    IF isTruthyContent(citationContent)
    THEN LET parsed == parseCitationCFF(citationContent,
                                        ("citation" :> citationContent) @@ record)
         IN  [parsed EXCEPT !.publication = removeDuplicatePublications(@)]
    ELSE record

\* The helpers the if (citationContent) block applies to the record.
stepsWithCitation(citationContent) ==
    IF isTruthyContent(citationContent)
    THEN <<"parseCitationCFF", "removeDuplicatePublications">>
    ELSE <<>>

\* The same rest of the handler with the prepare block moved in front of the
\* citation block.
GetCitationContentPreparedFirst ==
    /\ pc = "getCitationContent"
    /\ \E outcome \in BlobOutcomes(PipelineCitationTexts) :
         LET prepared == IF req.prepare THEN PrepareListsIds(metadata) ELSE metadata
             final == withCitation(contentOf(outcome), prepared)
         IN  /\ metadata' = final
             /\ failed' = failed \cup failureOf("getCitationContent", outcome)
             /\ steps' = steps \o (IF req.prepare THEN <<"PrepareListsIds">> ELSE <<>>)
                               \o stepsWithCitation(contentOf(outcome))
             /\ res' = Append(res, [status |-> 200, body |-> [data |-> final, status |-> 200]])
    /\ pc' = "done"
    /\ UNCHANGED <<req, documentationFiles, dirIndex, thrown, calls>>
    /\ UNCHANGED helperVars
    /\ UNCHANGED serviceVars
    /\ UNCHANGED listed

\* The rest of the handler after the last await: the citation block, the
\* prepare block and res.json.
GetCitationContent ==
    /\ pc = "getCitationContent"
    /\ \E outcome \in BlobOutcomes(PipelineCitationTexts) :
         LET mapped == withCitation(contentOf(outcome), metadata)
             final == IF req.prepare THEN PrepareListsIds(mapped) ELSE mapped
         IN  /\ metadata' = final
             /\ failed' = failed \cup failureOf("getCitationContent", outcome)
             /\ steps' = steps \o stepsWithCitation(contentOf(outcome))
                               \o (IF req.prepare THEN <<"PrepareListsIds">> ELSE <<>>)
             /\ res' = Append(res, [status |-> 200, body |-> [data |-> final, status |-> 200]])
    /\ pc' = "done"
    /\ UNCHANGED <<req, documentationFiles, dirIndex, thrown, calls>>
    /\ UNCHANGED helperVars
    /\ UNCHANGED serviceVars
    /\ UNCHANGED listed

Next ==
    \/ Receive
    \/ AuthApp
    \/ GetInstallationOctokit
    \/ AuthUser
    \/ GetRepositoryMetadata
    \/ FetchDirectoryContents
    \/ GetReadmeContent
    \/ GetCitationContent

Spec == Init /\ [][Next]_vars

(***************************************************************************)
(* A direct call of extractBibTeXEntries on a text.                        *)
(***************************************************************************)
InitExtract ==
    /\ HandlerIdle
    /\ ServicesIdle
    /\ fn = "extractBibTeXEntries"
    /\ arg \in {JsString(t) : t \in Texts}
    /\ ret = <<>>
    /\ returned = FALSE
    /\ times = 0

CallExtract ==
    /\ fn = "extractBibTeXEntries"
    /\ ~returned
    /\ ret' = extractBibTeXEntries(arg)
    /\ returned' = TRUE
    /\ times' = times + 1
    /\ UNCHANGED <<fn, arg>>
    /\ UNCHANGED handlerVars
    /\ UNCHANGED serviceVars

NextExtract == CallExtract

SpecExtract == InitExtract /\ [][NextExtract]_vars

(***************************************************************************)
(* A direct call of removeDuplicatePublications on a list.                 *)
(***************************************************************************)
InitDedupe ==
    /\ HandlerIdle
    /\ ServicesIdle
    /\ fn = "removeDuplicatePublications"
    /\ arg \in PublicationLists
    /\ ret = <<>>
    /\ returned = FALSE
    /\ times = 0

CallDedupe ==
    /\ fn = "removeDuplicatePublications"
    /\ ~returned
    /\ ret' = removeDuplicatePublications(arg)
    /\ returned' = TRUE
    /\ times' = times + 1
    /\ UNCHANGED <<fn, arg>>
    /\ UNCHANGED handlerVars
    /\ UNCHANGED serviceVars

NextDedupe == CallDedupe

SpecDedupe == InitDedupe /\ [][NextDedupe]_vars

(***************************************************************************)
(* A direct call of parseCitationCFF on a citation text and a record.      *)
(***************************************************************************)
InitCitation ==
    /\ HandlerIdle
    /\ ServicesIdle
    /\ fn = "parseCitationCFF"
    /\ arg \in [citationContent : {JsString(t) : t \in CitationTexts},
                record : NormalisedRecords]
    /\ ret = <<>>
    /\ returned = FALSE
    /\ times = 0

CallCitation ==
    /\ fn = "parseCitationCFF"
    /\ ~returned
    /\ ret' = parseCitationCFF(arg.citationContent, arg.record)
    /\ returned' = TRUE
    /\ times' = times + 1
    /\ UNCHANGED <<fn, arg>>
    /\ UNCHANGED handlerVars
    /\ UNCHANGED serviceVars

NextCitation == CallCitation

SpecCitation == InitCitation /\ [][NextCitation]_vars

(***************************************************************************)
(* A direct call of githubMetadata on a repository object.                 *)
(***************************************************************************)
InitNormalize ==
    /\ HandlerIdle
    /\ ServicesIdle
    /\ fn = "githubMetadata"
    /\ arg \in GithubObjects
    /\ ret = <<>>
    /\ returned = FALSE
    /\ times = 0

CallNormalize ==
    /\ fn = "githubMetadata"
    /\ ~returned
    /\ ret' = githubMetadata(arg)
    /\ returned' = TRUE
    /\ times' = times + 1
    /\ UNCHANGED <<fn, arg>>
    /\ UNCHANGED handlerVars
    /\ UNCHANGED serviceVars

NextNormalize == CallNormalize

SpecNormalize == InitNormalize /\ [][NextNormalize]_vars

(***************************************************************************)
(* A direct call of generateBranchName.                                    *)
(***************************************************************************)
InitBranchName ==
    /\ HandlerIdle
    /\ ServicesIdle
    /\ fn = "generateBranchName"
    /\ arg \in BranchArguments
    /\ ret = <<>>
    /\ returned = FALSE
    /\ times = 0

CallBranchName ==
    /\ fn = "generateBranchName"
    /\ ~returned
    /\ ret' = generateBranchName(arg)
    /\ returned' = TRUE
    /\ times' = times + 1
    /\ UNCHANGED <<fn, arg>>
    /\ UNCHANGED handlerVars
    /\ UNCHANGED serviceVars

NextBranchName == CallBranchName

SpecBranchName == InitBranchName /\ [][NextBranchName]_vars

(***************************************************************************)
(* A direct call of buildAuthors on a repository object.                   *)
(***************************************************************************)
InitAuthors ==
    /\ HandlerIdle
    /\ ServicesIdle
    /\ fn = "buildAuthors"
    /\ arg \in AuthorObjects
    /\ ret = <<>>
    /\ returned = FALSE
    /\ times = 0

CallAuthors ==
    /\ fn = "buildAuthors"
    /\ ~returned
    /\ ret' = buildAuthors(arg)
    /\ returned' = TRUE
    /\ times' = times + 1
    /\ UNCHANGED <<fn, arg>>
    /\ UNCHANGED handlerVars
    /\ UNCHANGED serviceVars

NextAuthors == CallAuthors

SpecAuthors == InitAuthors /\ [][NextAuthors]_vars

(***************************************************************************)
(* A direct call of processFiles on a listing, of the root (dir '') or of  *)
(* a documentation directory.                                              *)
(***************************************************************************)
InitProcess ==
    /\ HandlerIdle
    /\ ServicesIdle
    /\ fn = "processFiles"
    /\ arg \in [files : Listings, owner : {"owner"}, repo : {"repo"}, dir : {"", "docs"}]
    /\ ret = <<>>
    /\ returned = FALSE
    /\ times = 0

CallProcess ==
    /\ fn = "processFiles"
    /\ ~returned
    /\ ret' = processFiles(arg.files, arg.owner, arg.repo, arg.dir)
    /\ returned' = TRUE
    /\ times' = times + 1
    /\ UNCHANGED <<fn, arg>>
    /\ UNCHANGED handlerVars
    /\ UNCHANGED serviceVars

NextProcess == CallProcess

SpecProcess == InitProcess /\ [][NextProcess]_vars

(***************************************************************************)
(* Direct calls of PrepareListsIds on a record: the function assigns the   *)
(* fields of the object it is given and returns that object, so a further   *)
(* call is a call on the value returned by the one before.                 *)
(***************************************************************************)
InitPrepare ==
    /\ HandlerIdle
    /\ ServicesIdle
    /\ fn = "PrepareListsIds"
    /\ arg \in EnrichedRecords
    /\ ret = <<>>
    /\ returned = FALSE
    /\ times = 0

CallPrepare ==
    /\ fn = "PrepareListsIds"
    /\ times < MaxCalls
    /\ ret' = PrepareListsIds(IF returned THEN ret ELSE arg)
    /\ returned' = TRUE
    /\ times' = times + 1
    /\ UNCHANGED <<fn, arg>>
    /\ UNCHANGED handlerVars
    /\ UNCHANGED serviceVars

NextPrepare == CallPrepare

SpecPrepare == InitPrepare /\ [][NextPrepare]_vars

(***************************************************************************)
(* The route handlers POST /metadata/content and POST /metadata/content/   *)
(* user.  A file is the sequence of its bytes; GitHub answers with the     *)
(* bytes in base64, and the handler decodes them as UTF-8.                 *)
(***************************************************************************)
concurrentVars == <<pullHandler, github, resp, userHandler, global_new_pub, global_new_field>>

FileBytes == {"{", "}", "1", "0xFF"}

\* What a repository can hold at the requested path: a file, or nothing.
ContentFiles ==
    { [found |-> TRUE, bytes |-> b] : b \in SeqsUpTo(FileBytes, MaxFileLen) }
    \cup { [found |-> FALSE] }

\* response.data.content of the contents API.
toBase64(bytes) == [encoding |-> "base64", bytes |-> bytes]

\* Buffer.from(content, 'base64'): the bytes again.
BufferFrom(encoded) == encoded.bytes

\* buffer.toString('utf8'): a byte that is no UTF-8 becomes U+FFFD.
toStringUtf8(bytes) ==
    JsString([i \in 1..Len(bytes) |-> IF bytes[i] = "0xFF" THEN "uFFFD" ELSE bytes[i]])

\* JSON.parse(text): the value of a JSON text, a SyntaxError for any other.
JSONparse(text) ==
    IF text.text = <<"{", "}">> THEN [threw |-> FALSE, value |-> [type |-> "object", members |-> <<>>]]
    ELSE IF text.text = <<"1">> THEN [threw |-> FALSE, value |-> [type |-> "number", value |-> 1]]
    ELSE IF text.text = <<"1", "1">> THEN [threw |-> FALSE, value |-> [type |-> "number", value |-> 11]]
    ELSE [threw |-> TRUE, error |-> [message |-> "Unexpected token in JSON"]]

\* path.endsWith('.json')
endsWithJson(path) == path[Len(path)] = ".json"

ContentRequests ==
    { [route |-> r, owner |-> "owner", repo |-> "repo", path |-> p] :
        r \in {"/metadata/content", "/metadata/content/user"},
        p \in {<<"codemeta", ".json">>, <<"README", ".md">>} }

ReferenceError == [message |-> "ref is not defined"]
NotFound == [message |-> "Not Found", status |-> 404]

\* The catch block and the finally block of the two handlers: one response,
\* with error.status || 500 and error.code || 'INTERNAL_SERVER_ERROR'.
contentError(error) ==
    [status |-> IF "status" \in DOMAIN error THEN error.status ELSE 500,
     code |-> IF "code" \in DOMAIN error THEN error.code ELSE "INTERNAL_SERVER_ERROR",
     message |-> IF error.message # "" THEN error.message
                 ELSE "An error occurred while fetching file content."]

contentSuccess(fileContent) ==
    [status |-> 200, code |-> 200, message |-> "success", content |-> fileContent]

\* The handler ends with one response sent.
contentSend(response, failedStep) ==
    contentHandler' = [contentHandler EXCEPT
                         !.pc = "done",
                         !.sent = Append(@, response),
                         !.failed = @ \cup failedStep]

InitContent ==
    /\ HandlerIdle
    /\ ServicesIdle
    /\ HelperIdle

\* A request arrives; upstream is what the repository holds at the path.
ContentReceive ==
    /\ contentHandler.pc = "idle"
    /\ \E r \in ContentRequests, file \in ContentFiles :
         contentHandler' =
             [pc |-> IF r.route = "/metadata/content" THEN "authApp" ELSE "authUser",
              req |-> r, upstream |-> file, issued |-> <<>>, failed |-> {}, sent |-> <<>>]
    /\ UNCHANGED <<handlerVars, helperVars, concurrentVars>>

\* authApp returns null when it failed, and app.getInstallationOctokit on
\* null throws inside the try.
ContentAuthApp ==
    /\ contentHandler.pc = "authApp"
    /\ \E app \in {"app", "null"} :
         IF app = "null"
         THEN contentSend(contentError(TypeError), {"authApp"})
         ELSE contentHandler' = [contentHandler EXCEPT !.pc = "getInstallationOctokit"]
    /\ UNCHANGED <<handlerVars, helperVars, concurrentVars>>

\* With the installation client in hand the handler builds the parameters of
\* the contents request: { owner, repo, path, ref, accept }.  No ref is
\* declared in the handler or in the module, so reading it throws a
\* ReferenceError before octokit.request is called.
ContentGetInstallationOctokit ==
    /\ contentHandler.pc = "getInstallationOctokit"
    /\ \E ok \in BOOLEAN :
         IF ok
         THEN contentSend(contentError(ReferenceError), {})
         ELSE contentSend(contentError(HttpError), {"getInstallationOctokit"})
    /\ UNCHANGED <<handlerVars, helperVars, concurrentVars>>

\* authUser cannot fail; the contents request is issued next.
ContentAuthUser ==
    /\ contentHandler.pc = "authUser"
    /\ contentHandler' = [contentHandler EXCEPT
                            !.pc = "request",
                            !.issued = Append(@, "GET /repos/{owner}/{repo}/contents/{path}")]
    /\ UNCHANGED <<handlerVars, helperVars, concurrentVars>>

\* The contents request answers, and the rest of the try block runs.
ContentRequest ==
    /\ contentHandler.pc = "request"
    /\ \/ \E error \in {NotFound, HttpError} :
            /\ error = NotFound <=> ~contentHandler.upstream.found
            /\ contentSend(contentError(error), {"request"})
       \/ /\ contentHandler.upstream.found
          /\ LET response == [data |-> [content |-> toBase64(contentHandler.upstream.bytes)]]
                 fileContent == toStringUtf8(BufferFrom(response.data.content))
                 parsed == JSONparse(fileContent)
             IN  IF endsWithJson(contentHandler.req.path)
                 THEN IF parsed.threw
                      THEN contentSend(contentError(parsed.error), {})
                      ELSE contentSend(contentSuccess(parsed.value), {})
                 ELSE contentSend(contentSuccess(fileContent), {})
    /\ UNCHANGED <<handlerVars, helperVars, concurrentVars>>

NextContent ==
    \/ ContentReceive
    \/ ContentAuthApp
    \/ ContentGetInstallationOctokit
    \/ ContentAuthUser
    \/ ContentRequest

SpecContent == InitContent /\ [][NextContent]_vars

(***************************************************************************)
(* The route handler POST /metadata/pull of the updater, with several      *)
(* requests on one repository in flight.  An action is the answer of one   *)
(* awaited call together with the code that runs up to the next await.     *)
(* The message of an error is kept as its template and the values put in   *)
(* it.                                                                     *)
(***************************************************************************)
JsNumber(n) == [type |-> "number", value |-> n]

Message(text) == [template |-> text]

RequestError(status, text) == [message |-> Message(text), status |-> status]

\* The range of a sequence.
Range(seq) == {seq[i] : i \in 1..Len(seq)}

\* btoa(metadata): the base64 of a string of Latin-1 characters, and an
\* InvalidCharacterError for a string with any other character.
btoa(text) ==
    IF \A i \in 1..Len(text) : text[i] # "U+0100"
    THEN [threw |-> FALSE, value |-> toBase64(text)]
    ELSE [threw |-> TRUE,
          error |-> [message |-> Message("Invalid character")]]

\* req.body of POST /metadata/pull.
PullRequests ==
    { [owner |-> "owner", repo |-> "repo", filename |-> <<"codemeta", ".json">>,
       branch |-> <<"main">>, metadata |-> m] : m \in {<<"{", "}">>, <<"U+0100">>} }

\* The repository before the requests: its branches as GitHub lists them, the
\* files of its branches, its pull requests.
PullRepositories ==
    { [branches |-> <<<<"main">>>> \o evaluators, files |-> files, pulls |-> {}] :
        evaluators \in { <<>>, << <<"evaluator", "-", "1">> >> },
        files \in { {}, { [branch |-> <<"main">>, path |-> <<"codemeta", ".json">>,
                           sha |-> "sha-old"] } } }

\* The locals of a handler that has just been called, and what it has done:
\* the status the lookup of createFile was answered with, the writes issued,
\* the writes that succeeded, the error caught and the responses sent.
pullLocals(r) ==
    [pc |-> "getOctokit", req |-> r, content |-> JsUndefined,
     targetBranch |-> JsUndefined, answer |-> JsUndefined,
     branches |-> <<>>, newBranchName |-> <<>>, contents |-> JsUndefined,
     pullrequest |-> JsUndefined, lookup |-> JsUndefined,
     writes |-> <<>>, succeeded |-> <<>>, thrown |-> JsNull, sent |-> <<>>]

\* resp = { code: e.status, message: e.message }
respOfError(e) ==
    [code |-> IF "status" \in DOMAIN e THEN JsNumber(e.status) ELSE JsUndefined,
     message |-> e.message]

\* resp = { status: 200, ..., pullrequest_message: pullrequest }
respOfSuccess(newBranchName, baseBranch, pullrequest) ==
    [status |-> JsNumber(200), code |-> JsNumber(200), message |-> Message("success"),
     new_branch_name |-> newBranchName, head_branch_name |-> baseBranch,
     url |-> pullrequest.data.html_url, pullrequest_message |-> pullrequest]

\* The handlers with the locals of request p replaced.
withLocals(p, local) ==
    [i \in 1..(IF p > Len(pullHandler) THEN p ELSE Len(pullHandler)) |->
        IF i = p THEN local ELSE pullHandler[i]]

\* The handler goes on to its next await.
continuePull(p, local) ==
    /\ pullHandler' = withLocals(p, local)
    /\ UNCHANGED resp

\* The same end of the handler with res.send(resp) evaluated before the
\* assignment of resp.
endPullStale(p, local, response) ==
    /\ resp' = response
    /\ pullHandler' = withLocals(p, [local EXCEPT !.pc = "done", !.sent = Append(@, resp)])

\* resp = ... in the try or the catch block, and res.send(resp) in the
\* finally block: nothing is awaited between the two.
endPull(p, local, response) ==
    /\ resp' = response
    /\ pullHandler' = withLocals(p, [local EXCEPT !.pc = "done", !.sent = Append(@, resp')])

\* An error reaches the catch block of the handler.
throwPull(p, local, e) == endPull(p, [local EXCEPT !.thrown = e], respOfError(e))

\* The requests of one route, in the order of their arrival.
RequestIds == 1..MaxRequests

otherVars == <<handlerVars, helperVars, contentHandler, userHandler,
               global_new_pub, global_new_field>>

InitPull ==
    /\ HandlerIdle
    /\ HelperIdle
    /\ ContentIdle
    /\ pullHandler = <<>>
    /\ github \in PullRepositories
    /\ resp = JsUndefined
    /\ userHandler = <<>>
    /\ global_new_pub = JsUndefined
    /\ global_new_field = JsUndefined

\* The handler is called: btoa(metadata), then getOctokit is awaited.
PullReceive ==
    /\ Len(pullHandler) + Len(userHandler) < MaxRequests
    /\ \E r \in PullRequests :
         LET p == Len(pullHandler) + 1
             content == btoa(r.metadata)
         IN  IF content.threw
             THEN throwPull(p, pullLocals(r), content.error)
             ELSE continuePull(p, [pullLocals(r) EXCEPT !.content = content.value])
    /\ UNCHANGED <<github, otherVars>>

\* getOctokit: authApp and app.getInstallationOctokit inside one try, whose
\* catch throws the same Error for every failure.
PullGetOctokit(p) ==
    /\ p <= Len(pullHandler)
    /\ pullHandler[p].pc = "getOctokit"
    /\ \E ok \in BOOLEAN :
         IF ok
         THEN continuePull(p, [pullHandler[p] EXCEPT !.pc = "getTargetBranch"])
         ELSE throwPull(p, pullHandler[p],
                        [message |-> Message("Failed to get Octokit instance for installation")])
    /\ UNCHANGED <<github, otherVars>>

\* getTargetBranch: GET /repos/{owner}/{repo}/branches/{branch}; the rejection
\* of the request is thrown as it is.  The listing of the branches is
\* requested next.
PullGetTargetBranch(p) ==
    /\ p <= Len(pullHandler)
    /\ pullHandler[p].pc = "getTargetBranch"
    /\ LET local == pullHandler[p]
       IN  \/ /\ local.req.branch \in Range(github.branches)
              /\ continuePull(p, [local EXCEPT
                                    !.pc = "listBranches",
                                    !.targetBranch = [mainSHA |-> "sha-main",
                                                      mainName |-> local.req.branch]])
           \/ throwPull(p, local,
                        IF local.req.branch \in Range(github.branches)
                        THEN RequestError(500, "Server Error")
                        ELSE RequestError(404, "Branch not found"))
    /\ UNCHANGED <<github, otherVars>>

\* GitHub answers GET /repos/{owner}/{repo}/branches with the branches the
\* repository has at that moment; the answer is on its way to the handler.
GitHubListBranches(p) ==
    /\ p <= Len(pullHandler)
    /\ pullHandler[p].pc = "listBranches"
    /\ \E ok \in BOOLEAN :
         continuePull(p, [pullHandler[p] EXCEPT
                            !.pc = "getBranchesNames",
                            !.answer = IF ok THEN [status |-> 200, data |-> github.branches]
                                       ELSE RequestError(500, "Server Error")])
    /\ UNCHANGED <<github, otherVars>>

\* getBranchesNames returns the names of the answer, generateBranchName
\* computes the new name from them, and createBranch issues
\* POST /repos/{owner}/{repo}/git/refs for it.  The write records whether the
\* repository has a branch of that name when the request is issued.
PullGetBranchesNames(p) ==
    /\ p <= Len(pullHandler)
    /\ pullHandler[p].pc = "getBranchesNames"
    /\ LET local == pullHandler[p]
       IN  IF local.answer.status # 200
           THEN throwPull(p, local, local.answer)
           ELSE LET allBranchesNames == local.answer.data
                    newBranchName == generateBranchName(JsArray(allBranchesNames)).value
                IN  continuePull(p, [local EXCEPT
                        !.pc = "createBranch",
                        !.branches = allBranchesNames,
                        !.newBranchName = newBranchName,
                        !.writes = Append(@, [call |-> "createBranch",
                                              branchName |-> newBranchName,
                                              existed |-> newBranchName \in Range(github.branches)])])
    /\ UNCHANGED <<github, otherVars>>

\* throw new Error(`Failed to create branch '${branchName}' ...: ${error.message}`)
createBranchError(branchName, error) ==
    [message |-> [template |-> "Failed to create branch '{branchName}' in repository '{owner}/{repo}': {error.message}",
                  branchName |-> branchName, cause |-> error.message]]

\* The GET of createFile is issued: the path on the default branch, no ref.
issueLookup(local) ==
    [local EXCEPT !.pc = "lookup", !.succeeded = Append(@, "createBranch")]

\* The same step with a failure of createBranch logged and not thrown.
PullCreateBranchIgnoringFailure(p) ==
    /\ p <= Len(pullHandler)
    /\ pullHandler[p].pc = "createBranch"
    /\ LET local == pullHandler[p]
           branchName == local.newBranchName
       IN  IF branchName \in Range(github.branches)
           THEN /\ continuePull(p, [local EXCEPT !.pc = "lookup"])
                /\ UNCHANGED github
           ELSE \/ /\ github' = [github EXCEPT !.branches = Append(@, branchName)]
                   /\ continuePull(p, issueLookup(local))
                \/ /\ continuePull(p, [local EXCEPT !.pc = "lookup"])
                   /\ UNCHANGED github
    /\ UNCHANGED otherVars

\* createBranch: GitHub creates the reference, or rejects the request; it
\* rejects a reference that already exists.
PullCreateBranch(p) ==
    /\ p <= Len(pullHandler)
    /\ pullHandler[p].pc = "createBranch"
    /\ LET local == pullHandler[p]
           branchName == local.newBranchName
       IN  IF branchName \in Range(github.branches)
           THEN /\ throwPull(p, local,
                             createBranchError(branchName,
                                               RequestError(422, "Reference already exists")))
                /\ UNCHANGED github
           ELSE \/ /\ github' = [github EXCEPT !.branches = Append(@, branchName)]
                   /\ continuePull(p, issueLookup(local))
                \/ /\ throwPull(p, local,
                                createBranchError(branchName, RequestError(403, "Forbidden")))
                   /\ UNCHANGED github
    /\ UNCHANGED otherVars

\* What the repository has at the path on its default branch.
fileAt(path) == {f \in github.files : f.branch = <<"main">> /\ f.path = path}

\* The PUT of createFile is issued, with the sha of the file found.
issuePut(local, contents) ==
    LET requestConfig == [call |-> "createFile", branch |-> local.newBranchName,
                          path |-> local.req.filename, content |-> local.content]
    IN  [local EXCEPT
           !.pc = "put",
           !.contents = contents,
           !.writes = Append(@, IF contents # JsNull /\ contents.status = 200
                                THEN [sha |-> contents.data.sha] @@ requestConfig
                                ELSE requestConfig)]

retrieveError(path, error) ==
    [message |-> [template |-> "Failed to retrieve file at path '{path}' in repository '{owner}/{repo}': {error.message}",
                  path |-> path, cause |-> error.message]]

\* The same lookup with every rejection taken for a missing file.
PullLookupFileAnyErrorAsMissing(p) ==
    /\ p <= Len(pullHandler)
    /\ pullHandler[p].pc = "lookup"
    /\ LET local == pullHandler[p]
           found == fileAt(local.req.filename)
       IN  \/ \E f \in found :
                continuePull(p, issuePut([local EXCEPT !.lookup = JsNumber(200)],
                                         [status |-> 200, data |-> [sha |-> f.sha]]))
           \/ /\ found = {}
              /\ continuePull(p, issuePut([local EXCEPT !.lookup = JsNumber(404)], JsNull))
           \/ continuePull(p, issuePut([local EXCEPT !.lookup = JsNumber(500)], JsNull))
    /\ UNCHANGED <<github, otherVars>>

\* createFile, first half: GET /repos/{owner}/{repo}/contents/{path}.  The
\* answer 200 and the rejection 404 lead to the PUT; any other rejection is
\* thrown.
PullLookupFile(p) ==
    /\ p <= Len(pullHandler)
    /\ pullHandler[p].pc = "lookup"
    /\ LET local == pullHandler[p]
           found == fileAt(local.req.filename)
       IN  \/ \E f \in found :
                continuePull(p, issuePut([local EXCEPT !.lookup = JsNumber(200)],
                                         [status |-> 200, data |-> [sha |-> f.sha]]))
           \/ /\ found = {}
              /\ continuePull(p, issuePut([local EXCEPT !.lookup = JsNumber(404)], JsNull))
           \/ throwPull(p, [local EXCEPT !.lookup = JsNumber(500)],
                        retrieveError(local.req.filename, RequestError(500, "Server Error")))
    /\ UNCHANGED <<github, otherVars>>

fileError(path, error) ==
    [message |-> [template |-> "Failed to create or update file at path '{path}' in repository '{owner}/{repo}': {error.message}",
                  path |-> path, cause |-> error.message]]

\* The commit of the PUT: the file of the branch at the path is replaced.
committed(config) ==
    {f \in github.files : ~(f.branch = config.branch /\ f.path = config.path)}
        \cup {[branch |-> config.branch, path |-> config.path, sha |-> "sha-new"]}

\* createPullRequest issues POST /repos/{owner}/{repo}/pulls.
issuePullRequest(local) ==
    [local EXCEPT
       !.pc = "pull",
       !.succeeded = Append(@, "createFile"),
       !.writes = Append(@, [call |-> "createPullRequest", head |-> local.newBranchName,
                             base |-> local.targetBranch.mainName])]

\* The same step with the new branch deleted when the file write fails.
PullPutFileRollingBack(p) ==
    /\ p <= Len(pullHandler)
    /\ pullHandler[p].pc = "put"
    /\ LET local == pullHandler[p]
           config == local.writes[Len(local.writes)]
       IN  \/ /\ github' = [github EXCEPT !.files = committed(config)]
              /\ continuePull(p, issuePullRequest(local))
           \/ /\ throwPull(p, local,
                           fileError(local.req.filename, RequestError(409, "Conflict")))
              /\ github' = [github EXCEPT
                              !.branches = SelectSeq(@, LAMBDA b : b # local.newBranchName)]
    /\ UNCHANGED otherVars

\* createFile, second half: PUT /repos/{owner}/{repo}/contents/{path} on the
\* new branch.
PullPutFile(p) ==
    /\ p <= Len(pullHandler)
    /\ pullHandler[p].pc = "put"
    /\ LET local == pullHandler[p]
           config == local.writes[Len(local.writes)]
       IN  \/ /\ github' = [github EXCEPT !.files = committed(config)]
              /\ continuePull(p, issuePullRequest(local))
           \/ /\ throwPull(p, local,
                           fileError(local.req.filename, RequestError(409, "Conflict")))
              /\ UNCHANGED github
    /\ UNCHANGED otherVars

pullRequestError(head, base, error) ==
    [message |-> [template |-> "Failed to create pull request from branch '{head}' to branch '{base}' in repository '{owner}/{repo}': {error.message}",
                  head |-> head, base |-> base, cause |-> error.message]]

\* createPullRequest, and the end of the try block.
PullCreatePullRequest(p) ==
    /\ p <= Len(pullHandler)
    /\ pullHandler[p].pc = "pull"
    /\ LET local == pullHandler[p]
           config == local.writes[Len(local.writes)]
           opened == [head |-> config.head, base |-> config.base,
                      number |-> Cardinality(github.pulls) + 1]
           pullrequest == [status |-> 201,
                           data |-> [html_url |-> [pull |-> opened.number],
                                     number |-> opened.number]]
       IN  \/ /\ github' = [github EXCEPT !.pulls = @ \cup {opened}]
              /\ endPull(p, [local EXCEPT !.succeeded = Append(@, "createPullRequest"),
                                          !.pullrequest = pullrequest],
                         respOfSuccess(local.newBranchName, local.targetBranch.mainName,
                                       pullrequest))
           \/ /\ throwPull(p, local,
                           pullRequestError(config.head, config.base,
                                            RequestError(422, "Validation Failed")))
              /\ UNCHANGED github
    /\ UNCHANGED otherVars

NextPull ==
    \/ PullReceive
    \/ \E p \in RequestIds :
         \/ PullGetOctokit(p)
         \/ PullGetTargetBranch(p)
         \/ GitHubListBranches(p)
         \/ PullGetBranchesNames(p)
         \/ PullCreateBranch(p)
         \/ PullLookupFile(p)
         \/ PullPutFile(p)
         \/ PullCreatePullRequest(p)

SpecPull == InitPull /\ [][NextPull]_vars

(***************************************************************************)
(* Requests of POST /metadata/user in flight together with the requests of *)
(* POST /metadata/pull.  The helpers of the extractor assign the           *)
(* undeclared variables new_pub and new_field, which are properties of the *)
(* global object shared by all requests.  A request is followed from the   *)
(* await of getReadmeContent on, the first await after which a helper      *)
(* assigns one of them.                                                    *)
(***************************************************************************)
\* The record of a request after fetchDocumentationFiles.
ConcurrentRecords ==
    { [githubMetadata(RepositoryObject(JsString("a tool"), MITLicenseInfo, <<>>))
         EXCEPT !.documentation = <<>>] }

ConcurrentReadmes ==
    {[kind |-> "absent"]} \cup {[kind |-> "blob", text |-> t] : t \in ReadmeTexts}

ConcurrentCitations ==
    {[kind |-> "absent"]}
    \cup {[kind |-> "blob",
           text |-> [kind |-> "map",
                     map |-> ("license" :> "MIT")
                             @@ ("preferred-citation" :> [title |-> t, year |-> "2020",
                                                          doi |-> "1", url |-> ""])]] :
            t \in {"A", "C"}}

\* The handlers with the locals of request u replaced.
withUserLocals(u, local) ==
    [i \in 1..(IF u > Len(userHandler) THEN u ELSE Len(userHandler)) |->
        IF i = u THEN local ELSE userHandler[i]]

\* new_pub after extractJournalPublication: the publication of the last entry
\* that was parsed, and the value it had when no entry was.
newPubAfterReadme(publications) ==
    IF Len(publications) > 0 THEN publications[Len(publications)] ELSE global_new_pub

\* new_pub after parseCitationCFF: the publication pushed for the
\* preferred-citation, and the value it had when none was pushed.
newPubAfterCitation(before, parsed) ==
    IF Len(parsed.publication) > Len(before.publication)
    THEN parsed.publication[Len(parsed.publication)]
    ELSE global_new_pub

\* The handler has fetched the documentation and awaits getReadmeContent.
UserReceive ==
    /\ Len(pullHandler) + Len(userHandler) < MaxRequests
    /\ \E prepare \in BOOLEAN, record \in ConcurrentRecords :
         userHandler' = Append(userHandler,
                               [pc |-> "getReadmeContent",
                                req |-> [route |-> "/metadata/user", owner |-> "owner",
                                         repo |-> "repo", prepare |-> prepare],
                                metadata |-> record,
                                upstream |-> [record |-> record],
                                sent |-> <<>>])
    /\ UNCHANGED <<handlerVars, helperVars, contentHandler, pullHandler, github, resp,
                   global_new_pub, global_new_field>>

\* getReadmeContent returns; extractJournalPublication assigns new_pub for
\* every entry it parses and pushes the value it reads back from new_pub.
UserGetReadmeContent(u) ==
    /\ u <= Len(userHandler)
    /\ userHandler[u].pc = "getReadmeContent"
    /\ \E outcome \in ConcurrentReadmes :
         LET local == userHandler[u]
             publications == extractJournalPublication(contentOf(outcome))
             pushed == IF Len(publications) > 0
                       THEN [publications EXCEPT ![Len(publications)] = global_new_pub']
                       ELSE publications
         IN  /\ global_new_pub' = newPubAfterReadme(publications)
             /\ userHandler' = withUserLocals(u,
                    [local EXCEPT !.pc = "getCitationContent",
                                  !.metadata = [@ EXCEPT !.publication = pushed],
                                  !.upstream = ("readme" :> outcome) @@ @])
    /\ UNCHANGED <<handlerVars, helperVars, contentHandler, pullHandler, github, resp,
                   global_new_field>>

\* getCitationContent returns; parseCitationCFF assigns new_pub and pushes
\* the value it reads back, PrepareListsIds assigns new_field for each field
\* in turn and stores the value it reads back in the record (the last field
\* is publication), and res.json sends the record.
UserGetCitationContent(u) ==
    /\ u <= Len(userHandler)
    /\ userHandler[u].pc = "getCitationContent"
    /\ \E outcome \in ConcurrentCitations :
         LET local == userHandler[u]
             citationContent == contentOf(outcome)
             parsed == IF isTruthyContent(citationContent)
                       THEN parseCitationCFF(citationContent,
                                             ("citation" :> citationContent) @@ local.metadata)
                       ELSE local.metadata
             pushed == IF Len(parsed.publication) > Len(local.metadata.publication)
                       THEN [parsed EXCEPT
                               !.publication = [@ EXCEPT ![Len(@)] = global_new_pub']]
                       ELSE parsed
             mapped == IF isTruthyContent(citationContent)
                       THEN [pushed EXCEPT !.publication = removeDuplicatePublications(@)]
                       ELSE local.metadata
             final == IF local.req.prepare
                      THEN [PrepareListsIds(mapped) EXCEPT
                              ![fields[Len(fields)]] = global_new_field'.items]
                      ELSE mapped
         IN  /\ global_new_pub' = newPubAfterCitation(local.metadata, parsed)
             /\ global_new_field' = IF local.req.prepare
                                    THEN JsArray(PrepareListsIds(mapped)[fields[Len(fields)]])
                                    ELSE global_new_field
             /\ userHandler' = withUserLocals(u,
                    [local EXCEPT !.pc = "done",
                                  !.metadata = final,
                                  !.upstream = ("citation" :> outcome) @@ @,
                                  !.sent = Append(@, [status |-> 200,
                                                      body |-> [data |-> final,
                                                                status |-> 200]])])
    /\ UNCHANGED <<handlerVars, helperVars, contentHandler, pullHandler, github, resp>>

NextConcurrent ==
    \/ NextPull
    \/ UserReceive
    \/ \E u \in RequestIds :
         \/ UserGetReadmeContent(u)
         \/ UserGetCitationContent(u)

SpecConcurrent == InitPull /\ [][NextConcurrent]_vars

(***************************************************************************)
(* Properties of extractBibTeXEntries.                                     *)
(***************************************************************************)

\* The number of "{" minus the number of "}" among the first n tokens of s.
BraceDepth(s, n) ==
    Cardinality({k \in 1..n : s[k] = "{"}) - Cardinality({k \in 1..n : s[k] = "}"})

BraceBalanced(s) ==
    /\ BraceDepth(s, Len(s)) = 0
    /\ \A n \in 1..Len(s) : BraceDepth(s, n) >= 0

\* c[i..j] is a well-formed entry: the keyword, white space, "{", a key with no
\* comma and no brace, a comma, a brace-balanced body, and the "}" that closes
\* the entry's opening brace.
WellFormedEntry(c, i, j) ==
    /\ IsEntryKeyword(c[i])
    /\ c[j] = "}"
    /\ \E b \in (i + 1)..j, m \in (i + 1)..(j - 1) :
          /\ \A k \in (i + 1)..(b - 1) : c[k] = " "
          /\ c[b] = "{"
          /\ m > b + 1
          /\ c[m] = ","
          /\ \A k \in (b + 1)..(m - 1) : c[k] \notin {",", "{", "}"}
          /\ BraceBalanced(SubSeq(c, m + 1, j - 1))

\* The keyword at i is followed by white space and an opening brace.
EntryOpener(c, i) ==
    /\ IsEntryKeyword(c[i])
    /\ \E b \in (i + 1)..Len(c) :
          c[b] = "{" /\ \A k \in (i + 1)..(b - 1) : c[k] = " "

WellFormedStarts(c) ==
    {i \in 1..Len(c) : \E j \in i..Len(c) : WellFormedEntry(c, i, j)}

\* Every entry opener of c starts a well-formed entry.
OnlyWellFormedEntries(c) ==
    \A i \in 1..Len(c) : EntryOpener(c, i) => i \in WellFormedStarts(c)

\* C8: on a text whose entries (as scanned: backticks removed, NFKD
\* normalised) are all well-formed, extractBibTeXEntries returns one entry per
\* well-formed entry, in document order, each the tokens from its keyword to
\* the brace that closes its opening brace.
C8_WellFormedEntriesExtracted ==
    (returned /\ fn = "extractBibTeXEntries") =>
        LET c == scannedContent(arg)
            S == WellFormedStarts(c)
        IN  OnlyWellFormedEntries(c) =>
                /\ Len(ret) = Cardinality(S)
                /\ \A n \in 1..Len(ret) :
                      \E i \in S, j \in 1..Len(c) :
                          /\ Cardinality({i2 \in S : i2 < i}) = n - 1
                          /\ WellFormedEntry(c, i, j)
                          /\ ret[n] = SubSeq(c, i, j)

\* Two different well-formed entries were extracted from a text that also
\* holds tokens outside them and that normalisation changed.
C8_Witness ==
    /\ returned
    /\ fn = "extractBibTeXEntries"
    /\ OnlyWellFormedEntries(scannedContent(arg))
    /\ Len(ret) = 2
    /\ ret[1] # ret[2]
    /\ Len(scannedContent(arg)) > Len(ret[1]) + Len(ret[2])
    /\ scannedContent(arg) # arg.text

\* C9: every entry extractBibTeXEntries returns is brace-balanced, and ends at
\* a closing brace (an entry cut off by the end of the input is not returned).
C9_EntriesBraceBalanced ==
    (returned /\ fn = "extractBibTeXEntries") =>
        \A n \in 1..Len(ret) :
            /\ BraceBalanced(ret[n])
            /\ ret[n][Len(ret[n])] = "}"

(***************************************************************************)
(* Properties of parseCitationCFF.                                         *)
(***************************************************************************)
CitationCalled == returned /\ fn = "parseCitationCFF"

\* The mapping of the citation file handed to the call (the empty mapping
\* when the file holds none).
CitationMapOfArg == yamlLoad(arg.citationContent.text)

MappedFields == {"license", "label", "authors", "version", "publication"}

\* C4: when parseCitationCFF takes its failure path (the try block throws and
\* the catch logs), the record it returns equals the record it was given.
C4_FailureLeavesRecordUnchanged ==
    (CitationCalled /\ citationThrowsAt(arg.citationContent) # "none") =>
        ret = arg.record

\* C5: on a YAML mapping whose authors key is absent or empty, parseCitationCFF
\* leaves authors as they were and applies every other mapping of the file.
C5_MissingAuthorsTolerated ==
    LET m == CitationMapOfArg
    IN  ( /\ CitationCalled
          /\ arg.citationContent.text.kind = "map"
          /\ ("authors" \in DOMAIN m => m.authors = <<>>) ) =>
            /\ ret.authors = arg.record.authors
            /\ truthy(m, "license") =>
                   ret.license = Append(arg.record.license, [name |-> m.license, url |-> ""])
            /\ truthy(m, "title") => ret.label = Append(arg.record.label, m.title)
            /\ truthy(m, "version") => ret.version = Append(arg.record.version, m.version)
            /\ "preferred-citation" \in DOMAIN m =>
                   Len(ret.publication) = Len(arg.record.publication) + 1

\* C6: when the citation file lists authors, the authors of the returned
\* record are exactly the listed authors, in file order, each with the name
\* "<given-names> <family-names>", an empty email, maintainer false and type
\* person; the authors the record had before are gone.
C6_CitationAuthorsReplace ==
    LET m == CitationMapOfArg
    IN  ( /\ CitationCalled
          /\ "authors" \in DOMAIN m
          /\ m.authors # <<>> ) =>
            /\ Len(ret.authors) = Len(m.authors)
            /\ \A i \in 1..Len(m.authors) :
                 LET a == m.authors[i]
                     given == IF "given-names" \in DOMAIN a THEN a["given-names"] ELSE "undefined"
                     family == IF "family-names" \in DOMAIN a THEN a["family-names"] ELSE "undefined"
                 IN  ret.authors[i] = [name |-> given \o " " \o family, email |-> "",
                                       maintainer |-> FALSE, type |-> "person"]

\* Two listed authors replaced the two commit authors of the record.
C6_Witness ==
    /\ CitationCalled
    /\ "authors" \in DOMAIN CitationMapOfArg
    /\ Len(CitationMapOfArg.authors) = 2
    /\ Len(arg.record.authors) = 2
    /\ ret.authors[1].name = "A B"
    /\ \A i \in 1..2 : \A k \in 1..2 : ret.authors[i] # arg.record.authors[k]

\* The record after a call that ran to its return, when key counts as given
\* under the test present(key): every mapped list keeps its elements and gains
\* the file's value at its end, and no other field changes.
CitationMappedAs(present(_)) ==
    LET m == CitationMapOfArg
        old == arg.record
    IN  /\ ret.license = IF present("license")
                         THEN Append(old.license, [name |-> m.license, url |-> ""])
                         ELSE old.license
        /\ ret.label = IF present("title") THEN Append(old.label, m.title) ELSE old.label
        /\ ret.version = IF present("version") THEN Append(old.version, m.version)
                         ELSE old.version
        /\ ret.publication =
               IF "preferred-citation" \in DOMAIN m
               THEN LET p == m["preferred-citation"]
                        field(k) == IF k \in DOMAIN p THEN p[k] ELSE ""
                    IN  Append(old.publication,
                               [title |-> field("title"), year |-> field("year"),
                                doi |-> field("doi"), url |-> field("url")])
               ELSE old.publication
        /\ DOMAIN ret = DOMAIN old
        /\ \A f \in DOMAIN old \ MappedFields : ret[f] = old[f]

\* C7 as stated: on a call that ran to its return, license, label and version
\* gain one element if and only if the file has the key.
C7_AppendsIffKeyPresent ==
    (CitationCalled /\ citationThrowsAt(arg.citationContent) = "none") =>
        CitationMappedAs(LAMBDA k : k \in DOMAIN CitationMapOfArg)

\* C7 amended: on a call that ran to its return, license, label and version
\* gain one element at the end if and only if the file has the key with a
\* non-empty value, publication gains one entry (fields defaulting to '') if
\* and only if the file has preferred-citation, earlier elements keep their
\* order, and no field other than license, label, authors, version and
\* publication changes.
C7_AppendsIffValueTruthy ==
    (CitationCalled /\ citationThrowsAt(arg.citationContent) = "none") =>
        CitationMappedAs(LAMBDA k : k \in DOMAIN CitationMapOfArg /\ CitationMapOfArg[k] # "")

\* A call that ran to its return appended a license, a title, a version and a
\* publication with defaulted fields to lists that were not empty.
C7_Witness ==
    /\ CitationCalled
    /\ citationThrowsAt(arg.citationContent) = "none"
    /\ Len(arg.record.license) = 1 /\ Len(ret.license) = 2
    /\ Len(ret.label) = 2
    /\ Len(ret.version) = 2
    /\ Len(arg.record.publication) = 1 /\ Len(ret.publication) = 2
    /\ ret.publication[2].title = ""

(***************************************************************************)
(* Properties of removeDuplicatePublications.                              *)
(***************************************************************************)

\* The positions of ps whose key title + "-" + doi occurs at no earlier position.
FirstOccurrences(ps) ==
    {i \in 1..Len(ps) :
        \A j \in 1..(i - 1) :
            ps[j].title \o "-" \o ps[j].doi # ps[i].title \o "-" \o ps[i].doi}

\* C10: removeDuplicatePublications returns the publications at the first
\* occurrence of each key title + "-" + doi, in input order.
C10_FirstOccurrencePerKey ==
    (returned /\ fn = "removeDuplicatePublications") =>
        LET K == FirstOccurrences(arg)
        IN  /\ Len(ret) = Cardinality(K)
            /\ \A n \in 1..Len(ret) :
                 \E i \in K : Cardinality({k \in K : k < i}) = n - 1 /\ ret[n] = arg[i]

\* Two publications with empty title and empty doi, differing in year,
\* collapsed to the first; a third publication was kept.
C10_Witness ==
    /\ returned
    /\ fn = "removeDuplicatePublications"
    /\ Len(arg) = 3
    /\ Len(ret) = 2
    /\ \E i \in 1..3, j \in 1..3 :
         /\ i < j
         /\ arg[i].title = "" /\ arg[i].doi = ""
         /\ arg[j].title = "" /\ arg[j].doi = ""
         /\ arg[i].year # arg[j].year
         /\ ret[1] = arg[i]

(***************************************************************************)
(* Properties of the route handlers.                                       *)
(***************************************************************************)
HandlerEnded == pc \in {"done", "rejected"}

\* The steps the pipeline cannot do without: authentication, the installation
\* client, and the repository query with its normalisation.
EssentialSteps ==
    {"app.getInstallationOctokit", "getInstallationOctokit", "queryRepositoryObject",
     "githubMetadata"}

\* The fields githubMetadata gives every record.
RecordFields == DOMAIN githubMetadata(RepositoryObject(JsNull, JsNull, <<>>))

\* The elements of a list of the record, without the {term, id} wrapping of
\* PrepareListsIds when the list has it.
Terms(list) ==
    [i \in 1..Len(list) |-> IF "term" \in DOMAIN list[i] THEN list[i].term ELSE list[i]]

\* C1: a handler that has ended has sent exactly one response: data null and
\* a message when an essential step failed, a complete record otherwise.
C1_OneResponsePerRequest ==
    HandlerEnded =>
        /\ Len(res) = 1
        /\ IF thrown.at \in EssentialSteps
           THEN res[1].body.data = JsNull /\ "message" \in DOMAIN res[1].body
           ELSE res[1].body.data # JsNull /\ RecordFields \subseteq DOMAIN res[1].body.data

\* C2: the publication list of a returned record holds no two entries with
\* the same title and the same doi.
C2_PublicationsDeduplicated ==
    (pc = "done" /\ thrown.at = "none") =>
        LET pubs == Terms(res[1].body.data.publication)
        IN  \A i \in 1..Len(pubs), j \in 1..Len(pubs) :
                i < j => ~(pubs[i].title = pubs[j].title /\ pubs[i].doi = pubs[j].doi)

HasRecord == DOMAIN metadata # {}

UniqueByEmail(authors) ==
    \A i \in 1..Len(authors), j \in 1..Len(authors) :
        i < j => authors[i].email # authors[j].email

\* The authors listed by the citation file the handler has mapped into the
\* record (none when it has mapped no file or the file lists none).
MappedCitationAuthors ==
    IF "citation" \in DOMAIN metadata
    THEN LET m == yamlLoad(metadata.citation.text)
         IN  IF "authors" \in DOMAIN m THEN m.authors ELSE <<>>
    ELSE <<>>

\* C3 as stated: in every state of the record, no two authors have the same
\* email.
C3_AuthorsUniqueByEmail == HasRecord => UniqueByEmail(Terms(metadata.authors))

\* C3 amended: no two authors have the same email as long as the CITATION.cff
\* mapper has not replaced the authors; once it has, the record holds one
\* author per author of the file, every one with the empty email.
C3_AuthorsUniqueUntilCitation ==
    HasRecord =>
        LET authors == Terms(metadata.authors)
        IN  IF MappedCitationAuthors = <<>>
            THEN UniqueByEmail(authors)
            ELSE /\ Len(authors) = Len(MappedCitationAuthors)
                 /\ \A i \in 1..Len(authors) : authors[i].email = ""

\* A record normalised from a history of two commits under one author list
\* entry has had its authors replaced by the two authors of a citation file.
C3_Witness ==
    /\ pc = "done"
    /\ thrown.at = "none"
    /\ Len(MappedCitationAuthors) = 2
    /\ Len(Terms(metadata.authors)) = 2
    /\ ~UniqueByEmail(Terms(metadata.authors))

(***************************************************************************)
(* More properties of removeDuplicatePublications.                         *)
(***************************************************************************)

\* C11: removeDuplicatePublications removes a publication only when an earlier
\* publication of the input has the same title and the same doi: a publication
\* whose (title, doi) pair occurs at no earlier position is in the output.
C11_RemovedOnlyWithEqualPair ==
    (returned /\ fn = "removeDuplicatePublications") =>
        \A i \in 1..Len(arg) :
            (\A j \in 1..(i - 1) :
                 ~(arg[j].title = arg[i].title /\ arg[j].doi = arg[i].doi))
            => \E n \in 1..Len(ret) : ret[n] = arg[i]

(***************************************************************************)
(* Properties of PrepareListsIds.                                          *)
(***************************************************************************)

\* The 17 fields whose elements get an id.
DesignatedFields ==
    { "edam_topics", "edam_operations", "documentation", "description", "webpage",
      "license", "src", "links", "topics", "operations", "input", "output",
      "repository", "dependencies", "os", "authors", "publication" }

C13_SecondCallWrapsAgain ==
    (fn = "PrepareListsIds" /\ times = 2) =>
        /\ \A f \in DesignatedFields :
             /\ Len(ret[f]) = Len(arg[f])
             /\ \A n \in 1..Len(arg[f]) :
                  ret[f][n] = [term |-> [term |-> arg[f][n], id |-> n - 1], id |-> n - 1]
        /\ \E f \in DesignatedFields : arg[f] # <<>>
        /\ ret # PrepareListsIds(arg)

\* Two calls on a record with two publications.
C13_Witness ==
    /\ fn = "PrepareListsIds"
    /\ times = 2
    /\ Len(arg.publication) = 2
    /\ ret.publication[2].term.id = 1
    /\ ret.publication[2].term.term.title = "A"

(***************************************************************************)
(* The order of the pipeline.                                              *)
(***************************************************************************)

\* The place of a helper in the pipeline: normalisation, the classification
\* of the root and of docs, documentation and example, the README
\* publications, the citation mapping, the dedupe, the ids.
PipelineOrder ==
    << "githubMetadata", "processFiles:", "processFiles:docs", "processFiles:documentation",
       "processFiles:example", "extractJournalPublication", "parseCitationCFF",
       "removeDuplicatePublications", "PrepareListsIds" >>

Rank(step) == CHOOSE k \in 1..Len(PipelineOrder) : PipelineOrder[k] = step

Done(step) == \E k \in 1..Len(steps) : steps[k] = step

ReadmeEnabled == req.route = "/metadata/user" \/ req.readme_extract

StepsInOrder ==
    /\ \A k \in 1..Len(steps) : \E r \in 1..Len(PipelineOrder) : PipelineOrder[r] = steps[k]
    /\ \A i \in 1..Len(steps), j \in 1..Len(steps) : i < j => Rank(steps[i]) < Rank(steps[j])
    /\ Done("removeDuplicatePublications") => Done("parseCitationCFF")
    /\ (Done("PrepareListsIds") \/ (pc = "done" /\ thrown.at = "none")) =>
          /\ \A r \in 1..5 : Done(PipelineOrder[r])
          /\ Done("extractJournalPublication") <=> ReadmeEnabled

\* C14: in every run the helpers work on the record in the order
\* githubMetadata, processFiles (root, docs, documentation, example),
\* extractJournalPublication (if enabled), parseCitationCFF,
\* removeDuplicatePublications, PrepareListsIds; PrepareListsIds works at most
\* once and after all enrichment, and the record does not change after it.
C14_PipelineOrder ==
    /\ []StepsInOrder
    /\ [][Done("PrepareListsIds") => (metadata' = metadata /\ steps' = steps)]_vars

\* A run of POST /metadata in which every helper has worked on the record.
C14_Witness ==
    /\ pc = "done"
    /\ req.route = "/metadata"
    /\ steps = PipelineOrder
    /\ Len(metadata.publication) > 0
    /\ Len(metadata.documentation) > 0

(***************************************************************************)
(* Properties of processFiles.                                             *)
(***************************************************************************)
ProcessCalled == returned /\ fn = "processFiles"

\* The catalog types that list a name, compared without regard to case.
CatalogTypes(name) ==
    { docTypes[t].type : t \in { u \in 1..Len(docTypes) :
          \E k \in 1..Len(docTypes[u].filenames) :
              nameUpper(docTypes[u].filenames[k]) = nameUpper(name) } }

\* The URL the specification gives a file of a directory.
ExpectedUrl(owner, repo, dir, name) ==
    "https://github.com/" \o owner \o "/" \o repo \o "/blob/main/"
        \o (IF dir = "" THEN "" ELSE dir \o "/") \o name.stem \o name.ext

\* C15: for every file of the listing whose name equals, without regard to
\* case, a variant of the documentation catalog (the extensionless variants
\* included), processFiles emits an entry of that catalog type.
C15_CatalogFilesClassified ==
    ProcessCalled =>
        \A i \in 1..Len(arg.files) :
            (arg.files[i].type = "blob" /\ CatalogTypes(arg.files[i].name) # {}) =>
                \E n \in 1..Len(ret) :
                    /\ ret[n].type \in CatalogTypes(arg.files[i].name)
                    /\ ret[n].url = ExpectedUrl(arg.owner, arg.repo, arg.dir, arg.files[i].name)

\* The positions of the listing that hold a file whose name ends in .md or
\* .txt.
Candidates(files) ==
    {i \in 1..Len(files) : files[i].type = "blob" /\ files[i].name.ext \in {".md", ".txt"}}

\* C16: processFiles returns exactly one entry, in listing order, for each
\* entry of the listing that is a file whose name ends in .md or .txt, and
\* none for any other; a candidate matching no catalog variant has the type of
\* its directory, "root" at top level; every URL is
\* https://github.com/{owner}/{repo}/blob/main/[{dir}/]{name}.
C16_OneEntryPerCandidate ==
    ProcessCalled =>
        LET K == Candidates(arg.files)
        IN  /\ Len(ret) = Cardinality(K)
            /\ \A n \in 1..Len(ret) :
                 \E i \in K :
                    /\ Cardinality({k \in K : k < i}) = n - 1
                    /\ ret[n].url = ExpectedUrl(arg.owner, arg.repo, arg.dir, arg.files[i].name)
                    /\ CatalogTypes(arg.files[i].name) = {} =>
                          ret[n].type = IF arg.dir = "" THEN "root" ELSE arg.dir

\* A listing of docs with a subdirectory named guide.md, NOTES.md and
\* README.md: two entries, typed docs and readme.
C16_Witness ==
    /\ ProcessCalled
    /\ arg.dir = "docs"
    /\ arg.files = << [name |-> FileName("guide", ".md"), type |-> "tree"],
                      [name |-> FileName("NOTES", ".md"), type |-> "blob"],
                      [name |-> FileName("README", ".md"), type |-> "blob"] >>
    /\ ret = << [type |-> "docs", url |-> "https://github.com/owner/repo/blob/main/docs/NOTES.md"],
                [type |-> "readme", url |-> "https://github.com/owner/repo/blob/main/docs/README.md"] >>

(***************************************************************************)
(* Properties of fetchDocumentationFiles and of the optional fetches.      *)
(***************************************************************************)

\* The directories in the order of the specification: the root, then docs,
\* documentation and example.
DirectoryOrder == <<"", "docs", "documentation", "example">>

\* The classified entries of the k-th directory, from what its query answered.
ClassifiedOf(k) ==
    processFiles(IF listed[k] = JsNull THEN <<>> ELSE listed[k].entries,
                 req.owner, req.repo, DirectoryOrder[k])

Succeeded == pc = "done" /\ thrown.at = "none"

\* C17: the documentation list of the returned record is the classified
\* entries of the root, of docs, of documentation and of example, concatenated
\* in that order.
C17_DocumentationInDirectoryOrder ==
    Succeeded =>
        /\ Len(listed) = 4
        /\ Terms(res[1].body.data.documentation)
              = ClassifiedOf(1) \o ClassifiedOf(2) \o ClassifiedOf(3) \o ClassifiedOf(4)

\* A returned record of a repository in which the root and the three
\* directories all hold documentation.
C17_Witness ==
    /\ Succeeded
    /\ \A k \in 1..4 : listed[k] # JsNull /\ ClassifiedOf(k) # <<>>
    /\ Len(res[1].body.data.documentation) = 5

\* C18: a query for a documentation directory, for the README or for the
\* CITATION.cff that throws does not fail the request: the handler still
\* returns a record, without publications from the README when its query
\* threw and without citation when the query for the CITATION.cff threw.
C18_OptionalFetchFailureTolerated ==
    (HandlerEnded /\ failed # {}) =>
        /\ Len(res) = 1
        /\ res[1].body.data # JsNull
        /\ "getCitationContent" \in failed => "citation" \notin DOMAIN res[1].body.data
        /\ ("getReadmeContent" \in failed /\ "citation" \notin DOMAIN res[1].body.data)
               => res[1].body.data.publication = <<>>

\* The classified entries of the first k directories, those that do not
\* exist left out.
RECURSIVE ClassifiedOfExisting(_)
ClassifiedOfExisting(k) ==
    IF k = 0 THEN <<>>
    ELSE ClassifiedOfExisting(k - 1) \o (IF listed[k] = JsNull THEN <<>> ELSE ClassifiedOf(k))

\* C19: a directory among docs, documentation and example that does not exist
\* is no error, its step completes, and it contributes no entry: the list
\* holds the entries of the root and of the directories that exist, unchanged.
C19_MissingDirectoryIsEmpty ==
    /\ \A k \in 1..Len(listed) :
          listed[k] = JsNull => Done("processFiles:" \o DirectoryOrder[k])
    /\ documentationFiles = ClassifiedOfExisting(Len(listed))

\* A returned record of a repository with a directory documentation and
\* neither docs nor example.
C19_Witness ==
    /\ Succeeded
    /\ listed[2] = JsNull /\ listed[3] # JsNull /\ listed[4] = JsNull
    /\ Len(documentationFiles) = 3
    /\ documentationFiles[3].type = "documentation"

(***************************************************************************)
(* Properties of githubMetadata.                                           *)
(***************************************************************************)

\* The single-valued fields of the record and the field of the repository
\* object each is taken from.
SingleValued ==
    { <<"description", "description">>, <<"webpage", "homepageUrl">>,
      <<"links", "mirrorUrl">>, <<"repository", "url">> }

CommitAuthors(object) ==
    [i \in 1..Len(object.defaultBranchRef.target.history.edges) |->
        object.defaultBranchRef.target.history.edges[i].node.author]

\* The email a commit author is filed under: a null or missing email is the
\* empty email.
Bucket(author) == IF author.email.type = "string" THEN author.email.text ELSE ""

\* The positions of the history whose email occurs at no earlier position.
FirstOfEmail(cs) ==
    {i \in 1..Len(cs) : \A j \in 1..(i - 1) : Bucket(cs[j]) # Bucket(cs[i])}

ListFields ==
    { "label", "description", "links", "webpage", "license", "repository", "topics",
      "authors", "version", "documentation", "publication", "dependencies", "edam_topics",
      "edam_operations", "input", "output", "os", "src", "tags", "test", "operations" }

IsSequence(v) == DOMAIN v = 1..Len(v)

ListFieldsPresent(record) ==
    \A f \in ListFields : f \in DOMAIN record /\ IsSequence(record[f])

\* C22: from the output of githubMetadata to the returned record, every
\* list-typed field of the record is present and is a sequence, possibly
\* empty, and no step removes a field of the record.
C22_ListFieldsAlwaysPresent ==
    /\ [](HasRecord => ListFieldsPresent(metadata))
    /\ [](Succeeded => ListFieldsPresent(res[1].body.data))
    /\ [][HasRecord => DOMAIN metadata \subseteq DOMAIN metadata']_vars

\* A returned record that went through the citation mapping and through
\* PrepareListsIds, and has empty and non-empty list fields.
C22_Witness ==
    /\ Succeeded
    /\ Done("parseCitationCFF")
    /\ Done("PrepareListsIds")
    /\ ListFieldsPresent(res[1].body.data)
    /\ res[1].body.data.tags = <<>>
    /\ res[1].body.data.description = <<>>
    /\ Len(res[1].body.data.publication) > 0
    /\ Len(res[1].body.data.documentation) > 0

(***************************************************************************)
(* Properties of generateBranchName.                                       *)
(***************************************************************************)

\* The names of a list that are evaluator or evaluator-n.
EvaluatorNames(names) ==
    { names[i] : i \in { k \in 1..Len(names) :
          \/ names[k] = <<"evaluator">>
          \/ /\ Len(names[k]) >= 3
             /\ SubSeq(names[k], 1, 2) = <<"evaluator", "-">>
             /\ \A d \in 3..Len(names[k]) : IsDigit(names[k][d]) } }

\* The number n of an evaluator name, 0 for the bare word.
NumberOfName(name) ==
    IF Len(name) = 1 THEN NumberOf(0) ELSE ExactValue(SubSeq(name, 3, Len(name)), NumberOf(0))

\* C25: generateBranchName returns evaluator-1 when the list has no branch
\* named evaluator or evaluator-n, otherwise evaluator-(m+1) for the highest n
\* among them (the bare evaluator counting as 0), so the name returned is not
\* in the list; for an input that is not an array it throws.
C25_NextBranchName ==
    (returned /\ fn = "generateBranchName") =>
        IF arg.type # "array" THEN ret.threw
        ELSE /\ ~ret.threw
             /\ LET E == EvaluatorNames(arg.items)
                IN  IF E = {} THEN ret.value = <<"evaluator", "-", "1">>
                    ELSE \E e \in E :
                            /\ \A o \in E : ~Less(NumberOfName(e), NumberOfName(o))
                            /\ ret.value = <<"evaluator", "-">>
                                   \o numberToString(ExactPlus(NumberOfName(e), 1))
             /\ \A i \in 1..Len(arg.items) : arg.items[i] # ret.value

(***************************************************************************)
(* The external calls of a pipeline run.                                   *)
(***************************************************************************)

\* C27: within one run every external call (the repository query, each
\* directory listing, the README query, the CITATION.cff query) is issued at
\* most once, and after a call has failed the run issues no call again.
C27_NoCallIssuedTwice ==
    /\ [](\A i \in 1..Len(calls), j \in 1..Len(calls) : i < j => calls[i] # calls[j])
    /\ [][thrown.at # "none" => calls' = calls]_vars

\* A run whose repository query failed: the query was issued once and no
\* call after it.
C27_Witness ==
    /\ HandlerEnded
    /\ thrown.at = "queryRepositoryObject"
    /\ calls[Len(calls)] = "queryRepositoryObject"
    /\ Len(SelectSeq(calls, LAMBDA call : call = "queryRepositoryObject")) = 1

(***************************************************************************)
(* Properties of POST /metadata/content.                                   *)
(***************************************************************************)
ContentEnded == contentHandler.pc = "done"

\* What the handler is to send for the file upstream at the given path.
ExpectedContent(path, bytes) ==
    IF endsWithJson(path) THEN JSONparse(toStringUtf8(bytes)).value ELSE toStringUtf8(bytes)

\* C26: POST /metadata/content answers 200, 'success' and the decoded file
\* content (parsed as JSON for a path ending in .json) whenever authentication
\* and the contents request succeed, and it answers with an error status only
\* when one of those steps failed.  The repository holds a file at the path,
\* so the contents request succeeds when it is made with valid credentials.
C26_ContentAnswered ==
    (/\ ContentEnded
     /\ contentHandler.req.route = "/metadata/content"
     /\ contentHandler.upstream.found)
        => /\ Len(contentHandler.sent) = 1
           /\ contentHandler.failed = {}
                => contentHandler.sent[1] =
                     contentSuccess(ExpectedContent(contentHandler.req.path,
                                                    contentHandler.upstream.bytes))
           /\ contentHandler.sent[1].status # 200 => contentHandler.failed # {}

(***************************************************************************)
(* Properties of POST /metadata/pull.                                      *)
(***************************************************************************)
PullEnded(p) == p <= Len(pullHandler) /\ pullHandler[p].pc = "done"

\* The write calls of the handler, in the order of the code.
WriteOrder == <<"createBranch", "createFile", "createPullRequest">>

\* The write calls a request has issued, in the order it issued them.
writeCalls(p) == [i \in 1..Len(pullHandler[p].writes) |-> pullHandler[p].writes[i].call]

\* C23: a request issues its writes in the order create-branch,
\* create-or-update-file, create-pull-request, each only after the one before
\* it succeeded; after a failed write no further write is issued; a request
\* that ended has sent exactly one response, and once it has ended it issues
\* and sends nothing more.
C23_WritesInOrderOneResponse ==
    /\ [](\A p \in 1..Len(pullHandler) :
            LET local == pullHandler[p]
                issued == writeCalls(p)
            IN  /\ issued = SubSeq(WriteOrder, 1, Len(issued))
                /\ \A i \in 2..Len(issued) : WriteOrder[i - 1] \in Range(local.succeeded)
                /\ Len(local.sent) = IF local.pc = "done" THEN 1 ELSE 0
                /\ (local.pc = "done" /\ "createBranch" \notin Range(local.succeeded))
                      => Len(issued) <= 1
                /\ (local.pc = "done" /\ "createFile" \notin Range(local.succeeded))
                      => "createPullRequest" \notin Range(issued))
    /\ [][\A p \in 1..Len(pullHandler) :
            pullHandler[p].pc = "done" => pullHandler'[p] = pullHandler[p]]_vars

\* One request went through its three writes, and another one stopped at a
\* file write that failed.
C23_Witness ==
    \E p, q \in 1..Len(pullHandler) :
        /\ PullEnded(p) /\ PullEnded(q)
        /\ writeCalls(p) = WriteOrder
        /\ pullHandler[p].succeeded = WriteOrder
        /\ pullHandler[p].thrown = JsNull
        /\ writeCalls(q) = <<"createBranch", "createFile">>
        /\ pullHandler[q].succeeded = <<"createBranch">>
        /\ pullHandler[q].thrown # JsNull
        /\ Len(pullHandler[p].sent) = 1 /\ Len(pullHandler[q].sent) = 1

\* The PUT of createFile a request has issued, as a set: empty before it.
putOf(p) == {w \in Range(pullHandler[p].writes) : w.call = "createFile"}

C29_BranchNameFreeAtCall ==
    \A p \in 1..Len(pullHandler) :
        \A w \in Range(pullHandler[p].writes) :
            w.call = "createBranch" => ~w.existed

\* The request ended in its catch block after its createBranch had succeeded.
AbortedAfterBranch(p) ==
    /\ PullEnded(p)
    /\ pullHandler[p].thrown # JsNull
    /\ "createBranch" \in Range(pullHandler[p].succeeded)

\* What a request wrote is still in the repository: the branch it created,
\* and on that branch the file it committed.
WritesRemain(p) ==
    LET local == pullHandler[p]
    IN  /\ "createBranch" \in Range(local.succeeded)
             => local.newBranchName \in Range(github.branches)
        /\ "createFile" \in Range(local.succeeded)
             => \E f \in github.files :
                    f.branch = local.newBranchName /\ f.path = local.req.filename

\* The values put in the message of a response.
messageValues(response) ==
    {response.message[k] : k \in DOMAIN response.message \ {"template", "cause"}}

\* The response gives the name: in a field new_branch_name or in its message.
NamesBranch(response, branchName) ==
    \/ "new_branch_name" \in DOMAIN response /\ response.new_branch_name = branchName
    \/ branchName \in messageValues(response)

\* C30 as stated: when a request aborts after its create-branch succeeded,
\* the branch and the file commit if made remain in the repository, and the
\* error response does not name the branch that was created.
C30_NoRollbackBranchNotNamed ==
    \A p \in 1..Len(pullHandler) :
        AbortedAfterBranch(p)
            => /\ WritesRemain(p)
               /\ ~NamesBranch(pullHandler[p].sent[1], pullHandler[p].newBranchName)

\* C30 amended: when a request aborts after its create-branch succeeded, the
\* branch and the file commit if made remain in the repository; the error
\* response has no field new_branch_name, and its message names the branch
\* exactly when it was the pull-request creation that failed.
C30_NoRollbackBranchNamedByPullRequestError ==
    \A p \in 1..Len(pullHandler) :
        AbortedAfterBranch(p)
            => /\ WritesRemain(p)
               /\ "new_branch_name" \notin DOMAIN pullHandler[p].sent[1]
               /\ NamesBranch(pullHandler[p].sent[1], pullHandler[p].newBranchName)
                    <=> "createPullRequest" \in Range(writeCalls(p))

\* One request aborted at its file write and another one at its pull
\* request, and the branches of both are in the repository.
C30_Witness ==
    \E p, q \in 1..Len(pullHandler) :
        /\ AbortedAfterBranch(p) /\ AbortedAfterBranch(q)
        /\ writeCalls(p) = <<"createBranch", "createFile">>
        /\ writeCalls(q) = WriteOrder
        /\ pullHandler[p].newBranchName \in Range(github.branches)
        /\ pullHandler[q].newBranchName \in Range(github.branches)
        /\ pullHandler[p].newBranchName # pullHandler[q].newBranchName
        /\ \E f \in github.files : f.branch = pullHandler[q].newBranchName

(***************************************************************************)
(* Properties of concurrent requests.                                      *)
(***************************************************************************)
\* What a run of a pull request alone sends for the answers the request got.
AlonePullResponse(local) ==
    IF local.thrown # JsNull
    THEN respOfError(local.thrown)
    ELSE respOfSuccess(local.newBranchName, local.targetBranch.mainName, local.pullrequest)

\* What a run of a user request alone sends for the answers the request got.
AloneUserResponse(local) ==
    LET enriched == [local.upstream.record EXCEPT
                       !.publication = extractJournalPublication(contentOf(local.upstream.readme))]
        mapped == withCitation(contentOf(local.upstream.citation), enriched)
        final == IF local.req.prepare THEN PrepareListsIds(mapped) ELSE mapped
    IN  [status |-> 200, body |-> [data |-> final, status |-> 200]]

\* C24: whatever the interleaving of the requests, a request that has ended
\* has sent the response a run of that request alone sends for the same
\* answers of GitHub: the values of resp, new_pub and new_field that the
\* other requests leave behind do not reach it.
C24_ResponsesIndependent ==
    /\ \A p \in 1..Len(pullHandler) :
          pullHandler[p].pc = "done"
              => pullHandler[p].sent = <<AlonePullResponse(pullHandler[p])>>
    /\ \A u \in 1..Len(userHandler) :
          userHandler[u].pc = "done"
              => userHandler[u].sent = <<AloneUserResponse(userHandler[u])>>

\* Two pull requests ended, the second after the first, with different
\* responses; resp holds the response of the one that ended last.
C24_Witness ==
    /\ Len(pullHandler) = 2
    /\ pullHandler[1].pc = "done" /\ pullHandler[2].pc = "done"
    /\ pullHandler[1].thrown = JsNull
    /\ pullHandler[2].thrown # JsNull
    /\ pullHandler[1].sent # pullHandler[2].sent
    /\ resp = pullHandler[1].sent[1]

====
